---- MODULE Spec2Model ----
(***************************************************************************)
(* Model of the statement renderers of BankPL: check_page_break and the    *)
(* four fixed layouts of classic_functions.py, and create_dynamic_statement*)
(* of dynamic.py.  A render is a straight-line program over a canvas; the  *)
(* model runs it one canvas operation at a time.                           *)
(*                                                                         *)
(* Lengths are in hundredths of a point, so that 13.5, 11.25, 9 * 1.3 and  *)
(* 0.06 * 612 are exact.                                                   *)
(***************************************************************************)
EXTENDS Integers, Sequences, FiniteSets, TLC

VARIABLES cfg, status, pc, cur, page, font, call, last, tab, kinds, logs,
          canvas, saved, err, bound, ctx, heads, unit

vars == <<cfg, status, pc, cur, page, font, call, last, tab, kinds, logs,
          canvas, saved, err, bound, ctx, heads, unit>>

----------------------------------------------------------------------------
(* Units and page geometry *)

Pt(n) == 100 * n

inch == Pt(72)

PAGE_WIDTH == Pt(612)

PAGE_HEIGHT == Pt(792)

Min(a, b) == IF a <= b THEN a ELSE b

FixedLayouts == {"citi", "chase", "wells", "pnc"}

DynLayouts == {"dyn_seq", "dyn_two"}

\* margin = 0.5 * inch (citi, pnc, dynamic), MARGIN = 30 (chase),
\* MARGIN = 0.06 * PAGE_WIDTH (wells fargo)
Margin(layout) ==
    CASE layout = "chase" -> Pt(30)
      [] layout = "wells" -> (6 * PAGE_WIDTH) \div 100
      [] OTHER -> inch \div 2

UsableWidth(layout) == PAGE_WIDTH - 2 * Margin(layout)

----------------------------------------------------------------------------
(* check_page_break *)

NoFont == [name |-> "", size |-> 0]

Font(name, size) == [name |-> name, size |-> size]

\* The comparison of check_page_break written with <= instead of <.
NeedsBreakLe(y, margin, space) == y - space <= margin

\* if y_position - space_needed < margin
NeedsBreak(y, margin, space) == y - space < margin

\* The reset of check_page_break forgetting the margin.
TopOfPageNoMargin(page_height, margin) == page_height

\* y_position = page_height - margin
TopOfPage(page_height, margin) == page_height - margin

\* if is_table and headers and col_widths
RedrawsHeader(is_table, headers, col_widths) ==
    is_table /\ headers # <<>> /\ col_widths # <<>>

\* The value check_page_break returns and what it does to the canvas:
\*   y      the returned y_position
\*   broke  c.showPage() was called
\*   hdr    the header row was drawn at the top of the new page
\*   hdrY   where it was drawn
\*   font   the canvas font on return (f is the font on entry)
\*   raised col_widths[i] was indexed past its end (IndexError)
CheckPageBreak(y, margin, page_height, space, fname, fsize, is_table, headers, col_widths, header_font, f) ==
    IF NeedsBreak(y, margin, space)
    THEN LET top == TopOfPage(page_height, margin)
             hd  == RedrawsHeader(is_table, headers, col_widths)
             hf  == IF header_font # "" THEN header_font ELSE fname
         IN  [y      |-> IF hd THEN top - (fsize + Pt(4)) ELSE top,
              broke  |-> TRUE,
              hdr    |-> hd,
              hdrY   |-> top,
              font   |-> IF hd THEN Font(hf, fsize) ELSE Font(fname, fsize),
              raised |-> hd /\ \E i \in {2, 3, 4} :
                                     i < Len(headers) /\ i >= Len(col_widths)]
    ELSE [y |-> y, broke |-> FALSE, hdr |-> FALSE, hdrY |-> 0, font |-> f,
          raised |-> FALSE]

----------------------------------------------------------------------------
(* The canvas operations a render performs, as instructions *)

\* y = check_page_break(c, y, margin, PAGE_HEIGHT, space, fname, fsize, ...)
\* on cursor c; tbl names the table whose row loop makes the call
Chk(c, space, fname, fsize, is_table, headers, col_widths, header_font, tbl) ==
    [op |-> "check", c |-> c, space |-> space, fname |-> fname,
     fsize |-> fsize, is_table |-> is_table, headers |-> headers,
     col_widths |-> col_widths, header_font |-> header_font, tbl |-> tbl]

\* a check_page_break call outside a table
ChkP(c, space, fname, fsize) ==
    Chk(c, space, fname, fsize, FALSE, <<>>, <<>>, "", "none")

\* c.drawString / drawRightString / drawCentredString / drawImage / line /
\* rect at height (cursor c) - off
Drw(c, off, kind, tbl) ==
    [op |-> "draw", c |-> c, off |-> off, kind |-> kind, tbl |-> tbl]

\* y -= d
Dec(c, d) == [op |-> "dec", c |-> c, d |-> d]

\* c.setFont(name, size)
SetF(name, size) == [op |-> "font", name |-> name, size |-> size]

\* st.session_state['logs'] = ... + [message]
Lg(kind) == [op |-> "log", kind |-> kind]

\* dst = src + delta
Cpy(dst, src, delta) == [op |-> "copy", dst |-> dst, src |-> src, d |-> delta]

\* dst = PAGE_HEIGHT - margin - delta
SetTop(dst, delta) == [op |-> "top", dst |-> dst, d |-> delta]

\* dst = min(a, b) - delta
MinJ(dst, a, b, delta) ==
    [op |-> "min", dst |-> dst, a |-> a, b |-> b, d |-> delta]

\* ctx[key]
Acc(key) == [op |-> "access", key |-> key]

\* the required_keys loop
Val == [op |-> "validate"]

\* bank_name = ...
Bind == [op |-> "bind"]

\* the summary_keys and transaction_keys loops of the dynamic layout
Dft == [op |-> "defaults"]

\* middle_sections = ctx.get('sections', []); ...; middle_sections.sort(...)
Srt == [op |-> "sort"]

\* c = canvas.Canvas(output_buffer, pagesize=letter)
Canvas == [op |-> "canvas"]

\* c.save()
Save == [op |-> "save"]

\* an expression of the render that raises
Raise(type, key, at) == [op |-> "raise", type |-> type, key |-> key, at |-> at]

\* s repeated n times
Rep(n, s) == [i \in 1..(n * Len(s)) |-> s[((i - 1) % Len(s)) + 1]]

P(a, b) == Pt(a) + b

Pct(p, w) == (p * w) \div 100

\* logo_path = ctx.get('logo_path', ''): "ok" a readable image, "unreadable"
\* a path that open() or Image.open() rejects, "empty" no path
LogoOf(c) == IF c.missing = "logo_path" THEN "empty" ELSE c.logo

LogoWarning(c) ==
    IF LogoOf(c) = "empty" THEN Lg("warn_logo_missing")
    ELSE Lg("warn_logo_failed")

----------------------------------------------------------------------------
(* create_citi_classic *)

CitiRequired ==
    {"customer_account_number", "logo_path", "customer_bank_name",
     "account_type", "account_holder", "statement_period", "statement_date",
     "transactions", "summary"}

CitiHeaders == <<"Date", "Information", "Debit", "Credit", "Balance">>

CitiColWidths ==
    LET w == UsableWidth("citi")
    IN  <<Pct(15, w), Pct(36, w), Pct(12, w), Pct(12, w), Pct(12, w)>>

\* The logo block without its try/except: an unreadable logo propagates.
CitiLogoNoExcept(c) ==
    IF LogoOf(c) = "ok"
    THEN <<ChkP("y", c.logoH + Pt(12), "Helvetica", Pt(9)),
           Drw("y", c.logoH, "image", "none"),
           Dec("y", c.logoH + Pt(12)),
           Lg("logo_rendered")>>
    ELSE IF LogoOf(c) = "unreadable"
    THEN <<Raise("OSError", "logo_path", "logo")>>
    ELSE <<LogoWarning(c),
           ChkP("y", Pt(12), "Helvetica", Pt(9)),
           SetF("Helvetica", Pt(9)),
           Drw("y", 0, "placeholder", "none"),
           Dec("y", Pt(12))>>

CitiLogo(c) ==
    IF LogoOf(c) = "ok"
    THEN <<ChkP("y", c.logoH + Pt(12), "Helvetica", Pt(9)),
           Drw("y", c.logoH, "image", "none"),
           Dec("y", c.logoH + Pt(12)),
           Lg("logo_rendered")>>
    ELSE <<LogoWarning(c),
           ChkP("y", Pt(12), "Helvetica", Pt(9)),
           SetF("Helvetica", Pt(9)),
           Drw("y", 0, "placeholder", "none"),
           Dec("y", Pt(12))>>

CitiInfoBlocks ==
    <<Drw("y", Pt(12), "rule", "none"), Dec("y", Pt(24)),
      Cpy("l", "y", 0), Cpy("r", "y", 0),
      SetF("Helvetica-Bold", Pt(9)),
      Drw("l", 0, "text", "none"), Dec("l", Pt(12)),
      SetF("Helvetica", Pt(9))>>
    \o Rep(7, <<Drw("l", 0, "text", "none"), Dec("l", Pt(12))>>)
    \o <<Drw("l", 0, "text", "none"),
         SetF("Helvetica-Bold", Pt(9)),
         Drw("r", 0, "text", "none"), Dec("r", Pt(12)),
         SetF("Helvetica", Pt(9)),
         Acc("account_holder")>>
    \o Rep(5, <<Drw("r", 0, "text", "none"), Dec("r", Pt(12))>>)
    \o <<Drw("r", 0, "text", "none"),
         MinJ("y", "l", "r", Pt(24))>>

CitiImportant(c) ==
    <<SetF("Helvetica", Pt(12)),
      ChkP("y", Pt(18), "Helvetica", Pt(9)),
      Drw("y", 0, "heading", "none"), Dec("y", Pt(18)),
      SetF("Helvetica", Pt(9)),
      SetF("Helvetica", Pt(9))>>
    \o Rep(c.nInfo, <<ChkP("y", Pt(12), "Helvetica", Pt(9)),
                      Drw("y", 0, "para", "none"), Dec("y", Pt(12))>>)
    \o <<Dec("y", Pt(24))>>

\* The row loop of the Citi table calling check_page_break without is_table.
CitiRowsNoTable(c) ==
    Rep(c.nTx, <<Chk("y", Pt(12), "Helvetica", Pt(9), FALSE, <<>>, <<>>, "",
                     "citi_tx"),
                 Drw("y", 0, "row", "citi_tx"), Dec("y", Pt(12))>>)

CitiRows(c) ==
    Rep(c.nTx, <<Chk("y", Pt(12), "Helvetica", Pt(9), TRUE, CitiHeaders,
                     CitiColWidths, "", "citi_tx"),
                 Drw("y", 0, "row", "citi_tx"), Dec("y", Pt(12))>>)

CitiTransactions(c) ==
    <<SetF("Helvetica", Pt(12)),
      ChkP("y", Pt(18), "Helvetica-Bold", Pt(9)),
      Drw("y", 0, "heading", "none"), Dec("y", Pt(18)),
      SetF("Helvetica-Bold", Pt(9)),
      Drw("y", 0, "text", "none"), Dec("y", Pt(12)),
      Drw("y", 0, "text", "none"), Dec("y", Pt(12)),
      ChkP("y", Pt(24), "Helvetica-Bold", Pt(9)),
      Drw("y", 0, "rule", "none"),
      SetF("Helvetica-Bold", Pt(9)),
      Drw("y", Pt(12), "header", "citi_tx"),
      Dec("y", Pt(18)),
      Drw("y", 0, "rule", "none"),
      Dec("y", Pt(12)),
      SetF("Helvetica-Bold", Pt(9)),
      Drw("y", 0, "fixedrow", "citi_tx"),
      Dec("y", Pt(12))>>
    \o CitiRows(c)
    \o <<ChkP("y", Pt(12), "Helvetica-Bold", Pt(9)),
         SetF("Helvetica-Bold", Pt(9)),
         Drw("y", 0, "total", "citi_tx"),
         Dec("y", Pt(6)),
         Drw("y", 0, "rule", "none"),
         Dec("y", Pt(12))>>

CitiFooter(c) ==
    <<ChkP("y", Pt(48), "Helvetica", Pt(9)),
      SetF("Helvetica", Pt(9)),
      Drw("y", 0, "text", "none"), Dec("y", Pt(36)),
      ChkP("y", Pt(4 + 3 * 9 + 12 + 8), "Helvetica", Pt(7)),
      Drw("y", 0, "rule", "none"), Dec("y", Pt(8)),
      SetF("Helvetica", Pt(7)),
      SetF("Helvetica", Pt(7))>>
    \o Rep(c.nFoot, <<ChkP("y", Pt(8), "Helvetica", Pt(7)),
                      Drw("y", 0, "para", "none"), Dec("y", Pt(8))>>)
    \o <<Drw("y", 0, "text", "none")>>

CitiProgram(c) ==
    <<Val, Bind, Canvas, SetTop("y", 0)>>
    \o CitiLogo(c) \o CitiInfoBlocks \o CitiImportant(c)
    \o CitiTransactions(c) \o CitiFooter(c)
    \o <<Save, Lg("generated")>>

----------------------------------------------------------------------------
(* create_chase_classic *)

ChaseRequired ==
    {"customer_account_number", "logo_path", "account_holder",
     "account_holder_address", "statement_period", "account_type", "summary",
     "deposits", "withdrawals", "daily_balances"}

ChaseSummaryHeaders == <<"", "Instances", "Amount">>

ChaseSummaryColWidths == <<(24 * inch) \div 10, (18 * inch) \div 10,
                           (18 * inch) \div 10>>

ChaseHeaders == <<"Date", "Description", "Amount">>

ChaseColWidths == <<(9 * inch) \div 10, (42 * inch) \div 10,
                    (9 * inch) \div 10>>

ChaseDailyHeaders == <<"Date", "Amount">>

ChaseDailyColWidths == <<3 * inch, 3 * inch>>

ChaseLogo(c) ==
    IF LogoOf(c) = "ok"
    THEN <<ChkP("y", c.logoH + Pt(9), "Helvetica", P(10, 50)),
           Drw("y", c.logoH, "image", "none"),
           Dec("y", c.logoH + Pt(9)),
           Lg("logo_rendered")>>
    ELSE <<LogoWarning(c),
           ChkP("y", P(13, 50), "Helvetica", P(10, 50)),
           SetF("Helvetica", P(10, 50)),
           Drw("y", 0, "placeholder", "none"),
           Dec("y", P(13, 50))>>

ChaseHeader(c) ==
    <<SetF("Helvetica", P(10, 50))>>
    \o ChaseLogo(c)
    \o <<Drw("y", 0, "text", "none"), Dec("y", P(13, 50)),
         Drw("y", 0, "text", "none"), Dec("y", P(13, 50)),
         Drw("y", 0, "text", "none"),
         SetTop("r", 0),
         SetF("Helvetica-Bold", Pt(9)),
         Drw("r", 0, "text", "none"), Dec("r", P(13, 50)),
         Drw("r", 0, "text", "none"), Dec("r", P(13, 50)),
         SetF("Helvetica-Bold", Pt(9)),
         Drw("r", 0, "text", "none"),
         Drw("r", 0 - P(9, 50), "rule", "none"),
         Drw("r", Pt(4), "rule", "none"),
         Dec("r", P(13, 50)),
         SetF("Helvetica", Pt(9))>>
    \o Rep(5, <<ChkP("r", Pt(12), "Helvetica", Pt(9)),
                Drw("r", 0, "text", "none"), Dec("r", Pt(12))>>)
    \o <<MinJ("y", "y", "r", Pt(30)),
         SetF("Helvetica-Bold", Pt(9)),
         Acc("account_holder"),
         Drw("y", 0, "text", "none"), Dec("y", P(13, 50)),
         SetF("Helvetica", Pt(9))>>
    \o Rep(c.nAddr, <<ChkP("y", P(13, 50), "Helvetica-Bold", Pt(9)),
                      Drw("y", 0, "para", "none"), Dec("y", P(13, 50))>>)

\* draw_section_divider(title)
ChaseDivider ==
    <<ChkP("y", Pt(30), "Helvetica-Bold", P(10, 50)),
      SetF("Helvetica-Bold", P(10, 50)),
      Drw("y", Pt(12), "rule", "none"),
      Drw("y", Pt(9), "heading", "none"),
      Drw("y", Pt(2), "rule", "none"),
      Dec("y", Pt(30))>>

ChasePara(n) ==
    <<SetF("Helvetica", Pt(9))>>
    \o Rep(n, <<ChkP("y", P(13, 50), "Helvetica", Pt(9)),
                Drw("y", 0, "para", "none"), Dec("y", P(13, 50))>>)

ChaseSummary(c) ==
    ChaseDivider
    \o <<SetF("Helvetica-Bold", Pt(9)),
         Drw("y", 0, "header", "chase_sum"), Dec("y", P(13, 50)),
         SetF("Helvetica", Pt(9))>>
    \o Rep(4, <<Chk("y", P(13, 50), "Helvetica", Pt(9), TRUE,
                    ChaseSummaryHeaders, ChaseSummaryColWidths,
                    "Helvetica-Bold", "chase_sum"),
                Drw("y", 0, "row", "chase_sum"), Dec("y", P(13, 50))>>)
    \o (IF c.fee > 0 THEN ChasePara(c.fee) ELSE <<>>)
    \o <<Dec("y", Pt(30))>>

\* the Date / Description / Amount table of deposits or of withdrawals
ChaseLedger(n, tbl) ==
    ChaseDivider
    \o <<SetF("Helvetica-Bold", Pt(9)),
         Drw("y", 0, "header", tbl), Dec("y", P(13, 50)),
         SetF("Helvetica", Pt(9))>>
    \o Rep(n, <<Chk("y", P(13, 50), "Helvetica", Pt(9), TRUE, ChaseHeaders,
                    ChaseColWidths, "Helvetica-Bold", tbl),
                Drw("y", 0, "row", tbl), Dec("y", P(13, 50)),
                Drw("y", 0 - Pt(10), "rule", "none")>>)
    \o (IF n = 0
        THEN <<Chk("y", P(13, 50), "Helvetica", Pt(9), TRUE, ChaseHeaders,
                   ChaseColWidths, "Helvetica-Bold", tbl),
               Drw("y", 0, "norow", tbl), Dec("y", P(13, 50)),
               Drw("y", 0 - Pt(10), "rule", "none")>>
        ELSE <<>>)
    \o <<SetF("Helvetica-Bold", Pt(9)),
         Drw("y", 0, "total", tbl),
         Dec("y", Pt(30))>>

ChaseDaily(c) ==
    ChaseDivider
    \o <<SetF("Helvetica-Bold", Pt(9)),
         Drw("y", 0, "header", "chase_daily"), Dec("y", P(13, 50)),
         SetF("Helvetica", Pt(9))>>
    \o Rep(c.nDaily, <<Chk("y", P(13, 50), "Helvetica", Pt(9), TRUE,
                           ChaseDailyHeaders, ChaseDailyColWidths,
                           "Helvetica-Bold", "chase_daily"),
                       Drw("y", 0, "row", "chase_daily"),
                       Dec("y", P(13, 50))>>)
    \o <<Dec("y", Pt(30))>>

ChaseFootnotes(c) ==
    <<ChkP("y", 3 * P(11, 25), "Helvetica", P(7, 50)),
      SetF("Helvetica", P(7, 50)),
      Drw("y", 0, "text", "none"), Dec("y", P(11, 25)),
      SetF("Helvetica", P(7, 50))>>
    \o Rep(c.nFoot, <<ChkP("y", P(11, 25), "Helvetica", P(7, 50)),
                      Drw("y", 0, "para", "none"), Dec("y", P(11, 25))>>)

ChaseProgram(c) ==
    <<Val, Bind, Canvas, SetTop("y", 0)>>
    \o ChaseHeader(c)
    \o ChaseDivider \o <<SetF("Helvetica", Pt(9))>> \o ChasePara(c.nInfo)
    \o <<Dec("y", Pt(30))>>
    \o ChaseSummary(c)
    \o ChaseLedger(c.nDep, "chase_dep")
    \o ChaseLedger(c.nWd, "chase_wd")
    \o ChaseDaily(c)
    \o ChaseFootnotes(c)
    \o <<Save, Lg("generated")>>

----------------------------------------------------------------------------
(* create_wellsfargo_classic *)

WellsRequired ==
    {"customer_account_number", "logo_path", "account_type",
     "account_holder_address", "statement_period", "summary", "transactions"}

WellsHeaders ==
    <<"Date", "Description", "Deposits / Credits", "Withdrawals / Debits",
      "Ending daily balance">>

WellsColWidths ==
    LET w == UsableWidth("wells")
    IN  <<Pct(12, w), Pct(36, w), Pct(14, w), Pct(16, w), Pct(22, w)>>

WellsLogo(c) ==
    IF LogoOf(c) = "ok"
    THEN <<SetTop("g", 0),
           ChkP("g", c.logoH, "Helvetica", Pt(11)),
           Drw("g", c.logoH, "image", "none"),
           Lg("logo_rendered")>>
    ELSE <<LogoWarning(c),
           SetF("Helvetica", Pt(11)),
           SetTop("g", 0),
           Drw("g", Pt(20), "placeholder", "none")>>

WellsHeader(c) ==
    <<SetF("Helvetica-Bold", Pt(20)),
      ChkP("y", Pt(36), "Helvetica-Bold", Pt(20)),
      Drw("y", Pt(20), "heading", "none"),
      SetF("Helvetica", Pt(11)),
      Drw("y", Pt(25 + 11), "text", "none"),
      Dec("y", Pt(25 + 11)),
      SetF("Helvetica", Pt(11))>>
    \o Rep(c.nAddr, <<ChkP("y", P(14, 30), "Helvetica", Pt(11)),
                      Drw("y", P(14, 30), "para", "none"),
                      Dec("y", P(14, 30))>>)
    \o WellsLogo(c)
    \o <<Dec("y", Pt(30 + 15) + 4 * P(14, 30))>>

WellsQuestions(c) ==
    <<SetF("Helvetica-Bold", Pt(10)),
      ChkP("y", Pt(143), "Helvetica-Bold", Pt(10)),
      Drw("y", 0, "heading", "none"),
      SetF("Helvetica", Pt(9)),
      Dec("y", P(11, 70)),
      SetF("Helvetica", Pt(9))>>
    \o Rep(c.nHelp, <<ChkP("y", P(11, 70), "Helvetica", Pt(9)),
                      Drw("y", 0, "para", "none"), Dec("y", P(11, 70))>>)
    \o <<Drw("y", 0 - P(11, 70), "rule", "none"),
         Dec("y", Pt(15)),
         Drw("y", 0 - Pt(10), "rule", "none"),
         Dec("y", Pt(10))>>

\* a heading, then a wrapped text of n lines in Helvetica 10
WellsBlurb(space, n) ==
    <<SetF("Helvetica-Bold", Pt(14)),
      ChkP("y", space, "Helvetica-Bold", Pt(14)),
      Drw("y", 0, "heading", "none"),
      Dec("y", Pt(14 + 5)),
      SetF("Helvetica", Pt(10)),
      SetF("Helvetica", Pt(10))>>
    \o Rep(n, <<ChkP("y", Pt(13), "Helvetica", Pt(10)),
                Drw("y", 0, "para", "none"), Dec("y", Pt(13))>>)

WellsActivity(c) ==
    <<ChkP("y", Pt(65), "Helvetica-Bold", Pt(13)),
      Dec("y", Pt(20)),
      SetF("Helvetica-Bold", Pt(13)),
      Drw("y", 0, "heading", "none"),
      Dec("y", Pt(13 + 3)),
      SetF("Helvetica", Pt(10))>>
    \o Rep(3, <<SetF("Helvetica", Pt(10)),
                ChkP("y", Pt(13), "Helvetica", Pt(10)),
                Drw("y", 0, "text", "none"), Dec("y", Pt(10 + 2))>>)
    \o <<SetF("Helvetica-Bold", Pt(10)),
         ChkP("y", Pt(13), "Helvetica-Bold", Pt(10)),
         Drw("y", 0, "text", "none"), Dec("y", Pt(10 + 2)),
         Dec("y", 0 - 4 * Pt(10 + 2)),
         SetF("Helvetica", Pt(9)),
         Acc("account_holder"),
         SetF("Helvetica", Pt(9))>>
    \o Rep(c.nRoute, <<ChkP("y", P(11, 70), "Helvetica", Pt(9)),
                       Drw("y", 0, "para", "none"), Dec("y", Pt(9 + 2))>>)
    \o <<Drw("y", 0 - Pt(10), "rule", "none"),
         Dec("y", Pt(10)),
         Drw("y", 0 - Pt(10), "rule", "none")>>

WellsTransactions(c) ==
    <<ChkP("y", Pt(13) * (c.nTx + 3), "Helvetica-Bold", Pt(13)),
      Dec("y", Pt(10)),
      SetF("Helvetica-Bold", Pt(13)),
      Drw("y", 0, "heading", "none"),
      Dec("y", Pt(13 + 6)),
      SetF("Helvetica-Bold", Pt(10)),
      Drw("y", 0, "rule", "none"),
      Drw("y", 0 - Pt(2), "header", "wells_tx"),
      Dec("y", Pt(10 + 3)),
      SetF("Helvetica", Pt(10)),
      Drw("y", 0, "fixedrow", "wells_tx"),
      Drw("y", Pt(2), "rule", "none"),
      Dec("y", Pt(10 + 3))>>
    \o Rep(c.nTx, <<Chk("y", Pt(10 + 3), "Helvetica", Pt(10), TRUE,
                        WellsHeaders, WellsColWidths, "", "wells_tx"),
                    Drw("y", 0, "row", "wells_tx"),
                    Drw("y", Pt(2), "rule", "none"),
                    Dec("y", Pt(10 + 3))>>)
    \o (IF c.nTx = 0
        THEN <<ChkP("y", Pt(10 + 3), "Helvetica", Pt(10)),
               Drw("y", 0, "norow", "wells_tx"), Dec("y", Pt(10 + 3))>>
        ELSE <<>>)
    \o <<SetF("Helvetica-Bold", Pt(10)),
         Drw("y", 0, "total", "wells_tx"),
         Dec("y", Pt(10 + 3))>>

WellsDisclosures(c) ==
    <<ChkP("y", 3 * P(11, 70), "Helvetica", Pt(9)),
      SetF("Helvetica", Pt(9)),
      Drw("y", 0, "text", "none"), Dec("y", P(11, 70)),
      SetF("Helvetica", Pt(9))>>
    \o Rep(c.nFoot, <<ChkP("y", P(11, 70), "Helvetica", Pt(9)),
                      Drw("y", 0, "para", "none"), Dec("y", P(11, 70))>>)
    \o <<Dec("y", P(11, 70)),
         Drw("y", 0, "text", "none")>>

WellsProgram(c) ==
    <<Val, Bind, Canvas, SetTop("y", 0)>>
    \o WellsHeader(c) \o WellsQuestions(c)
    \o WellsBlurb(4 * P(18, 20), c.nIntro) \o <<Dec("y", Pt(20))>>
    \o WellsBlurb(5 * P(18, 20), c.nInfo)
    \o WellsActivity(c) \o WellsTransactions(c) \o WellsDisclosures(c)
    \o <<Save, Lg("generated")>>

----------------------------------------------------------------------------
(* create_pnc_classic *)

PncRequired ==
    {"customer_account_number", "logo_path", "account_type",
     "statement_period", "account_holder", "account_holder_address",
     "summary", "deposits", "withdrawals"}

MIN_SPACE_FOR_TABLE == Pt(60)

\* logo_height
PncLogoHeight(c) == IF LogoOf(c) = "ok" THEN c.logoH + Pt(10) ELSE Pt(24)

PncLogo(c) ==
    IF LogoOf(c) = "ok"
    THEN <<SetTop("g", 0),
           Drw("g", c.logoH, "image", "none"),
           Lg("logo_rendered")>>
    ELSE <<LogoWarning(c),
           SetF("Helvetica", P(10, 50)),
           SetTop("g", 0),
           Drw("g", Pt(24), "placeholder", "none")>>

\* n lines drawn one under the other with no check, then the last gap
PncLines(n, gap) ==
    Rep(n - 1, <<Drw("y", 0, "text", "none"), Dec("y", Pt(12))>>)
    \o <<Drw("y", 0, "text", "none"), Dec("y", gap)>>

PncPara(n) ==
    <<SetF("Helvetica", Pt(12))>>
    \o Rep(n, <<ChkP("y", Pt(12), "Helvetica", Pt(12)),
                Drw("y", 0, "para", "none"), Dec("y", Pt(12))>>)

PncHeader(c) ==
    <<SetF("Helvetica", Pt(12)), SetTop("y", Pt(24))>>
    \o PncLogo(c)
    \o <<SetTop("y", PncLogoHeight(c) + Pt(10)),
         SetF("Helvetica", Pt(22)),
         ChkP("y", Pt(30), "Helvetica", Pt(22)),
         Drw("y", 0, "heading", "none"), Dec("y", Pt(18)),
         SetF("Helvetica", P(10, 50)),
         Drw("y", 0, "text", "none"), Dec("y", Pt(30)),
         Drw("y", 0, "rule", "none"),
         Dec("y", Pt(14)),
         SetF("Helvetica", Pt(12)),
         Drw("y", 0, "text", "none"), Dec("y", Pt(14)),
         Acc("account_holder"),
         Drw("y", 0, "text", "none"), Dec("y", Pt(14)),
         SetF("Helvetica", Pt(12))>>
    \o PncPara(c.nAddr)
    \o <<SetF("Helvetica", P(10, 50)),
         Cpy("r", "y", Pt(8))>>
    \o Rep(8, <<Drw("r", 0, "text", "none"), Dec("r", Pt(12))>>)
    \o <<Drw("r", 0, "text", "none"),
         MinJ("y", "y", "r", Pt(14)),
         Drw("y", 0, "rule", "none")>>

\* check for 60 points, then a heading in Helvetica of the given size
PncHeading(size) ==
    <<ChkP("y", Pt(60), "Helvetica", size),
      Dec("y", Pt(14)),
      SetF("Helvetica", size),
      Drw("y", 0, "heading", "none"),
      Dec("y", Pt(14))>>

PncImportant(c) ==
    PncHeading(Pt(11))
    \o <<SetF("Helvetica", Pt(12))>>
    \o PncPara(c.nInfo)
    \o <<Dec("y", Pt(12)),
         Drw("y", 0, "text", "none"), Dec("y", Pt(14)),
         Drw("y", 0, "rule", "none")>>

PncAccountSummary ==
    PncHeading(Pt(15))
    \o <<SetF("Helvetica", Pt(12)),
         Drw("y", 0, "text", "none"), Dec("y", Pt(12)),
         Drw("y", 0, "text", "none"), Dec("y", Pt(12)),
         SetF("Helvetica-Bold", Pt(12)),
         Drw("y", 0, "text", "none"), Dec("y", Pt(14)),
         Drw("y", 0, "rule", "none")>>

PncSummaries ==
    <<ChkP("y", Pt(60), "Helvetica", Pt(13)),
      Dec("y", Pt(14)),
      SetF("Helvetica", Pt(13)),
      Drw("y", 0, "heading", "none"), Dec("y", Pt(10)),
      SetF("Helvetica", Pt(12))>>
    \o PncLines(6, Pt(20))
    \o <<SetF("Helvetica", Pt(13)),
         Drw("y", 0, "heading", "none"), Dec("y", Pt(10)),
         SetF("Helvetica", Pt(12))>>
    \o PncLines(6, Pt(20))
    \o <<SetF("Helvetica", Pt(13)),
         Drw("y", 0, "heading", "none"), Dec("y", Pt(10)),
         SetF("Helvetica", Pt(12))>>
    \o PncLines(4, Pt(12))
    \o <<SetF("Helvetica", P(10, 50)),
         Drw("y", 0, "text", "none"), Dec("y", Pt(20)),
         Drw("y", 0, "rule", "none")>>

\* the Date / Amount / Description table of deposits or of withdrawals;
\* gap is the space left under its header row
PncLedger(n, tbl, gap) ==
    <<ChkP("y", MIN_SPACE_FOR_TABLE, "Helvetica", Pt(13)),
      SetF("Helvetica", Pt(13)),
      Drw("y", 0, "heading", "none"), Dec("y", Pt(10)),
      SetF("Helvetica", Pt(12)),
      Drw("y", 0, "header", tbl), Dec("y", gap)>>
    \o Rep(n, <<ChkP("y", Pt(12), "Helvetica", Pt(12)),
                Drw("y", 0, "row", tbl), Dec("y", Pt(12))>>)
    \o <<Dec("y", Pt(12)),
         SetF("Helvetica", P(10, 50)),
         Drw("y", 0, "total", tbl),
         Dec("y", Pt(20))>>

PncActivity(c) ==
    <<ChkP("y", MIN_SPACE_FOR_TABLE, "Helvetica", Pt(15)),
      Dec("y", Pt(14)),
      SetF("Helvetica", Pt(15)),
      Drw("y", 0, "heading", "none"), Dec("y", Pt(14)),
      SetF("Helvetica", Pt(12))>>
    \o PncLedger(c.nDep, "pnc_dep", Pt(11))
    \o PncLedger(c.nWd, "pnc_wd", Pt(12))
    \o <<Drw("y", 0, "rule", "none")>>

PncDisclosures(c) ==
    PncHeading(Pt(11))
    \o <<SetF("Helvetica", Pt(12))>>
    \o PncPara(c.nFoot)
    \o <<Dec("y", Pt(12)),
         Drw("y", 0, "text", "none")>>

PncProgram(c) ==
    <<Val, Bind, Canvas>>
    \o PncHeader(c) \o PncImportant(c) \o PncAccountSummary \o PncSummaries
    \o PncActivity(c) \o PncDisclosures(c)
    \o <<Save, Lg("generated")>>

----------------------------------------------------------------------------
(* calculate_dynamic_col_widths *)

RECURSIVE SumSeq(_)
SumSeq(s) == IF s = <<>> THEN 0 ELSE Head(s) + SumSeq(Tail(s))

Max(a, b) == IF a >= b THEN a ELSE b

\* col_lens: the longest cell of each column of data (len(data[0]) columns);
\* props: col_widths_proportions in thousandths; factor: random_factor in
\* thousandths.  Called with data non-empty and props non-empty.  The
\* products are taken in an order that keeps them within 32 bits;
\* usable_width is a whole number of points.
WeightedColWidths(col_lens, usable_width, props, factor) ==
    LET total  == IF SumSeq(col_lens) = 0 THEN 1 ELSE SumSeq(col_lens)
        raw    == [i \in 1..Len(props) |->
                     Min(Max((((((usable_width * props[i]) \div 1000)
                                 * col_lens[i]) \div total) * factor)
                               \div 1000,
                             inch \div 2),
                         (usable_width * props[i]) \div 1000)]
        tw     == SumSeq(raw)
        wp     == usable_width \div Pt(1)
    IN  IF tw > 0
        THEN [i \in 1..Len(props) |->
                ((raw[i] * wp) \div tw) * Pt(1)
                + (((raw[i] * wp) % tw) * Pt(1)) \div tw]
        ELSE raw

\* if not data or not col_widths_proportions:
\*     return [usable_width / len(data[0])] * len(data[0]) if data
\*            else [usable_width]
CalculateDynamicColWidths(nrows, col_lens, usable_width, props, factor) ==
    IF nrows = 0 THEN <<usable_width>>
    ELSE IF props = <<>>
    THEN [i \in 1..Len(col_lens) |-> usable_width \div Len(col_lens)]
    ELSE WeightedColWidths(col_lens, usable_width, props, factor)

\* what calculate_dynamic_col_widths raises: "" when it returns
ColWidthsError(nrows, col_lens, props) ==
    IF nrows > 0 /\ props = <<>> /\ col_lens = <<>> THEN "ZeroDivisionError"
    ELSE IF nrows > 0 /\ props # <<>> /\ Len(props) > Len(col_lens)
    THEN "IndexError"
    ELSE ""

----------------------------------------------------------------------------
(* create_dynamic_statement *)

DynRequired ==
    {"bank_name", "account_holder", "account_holder_address", "account_type",
     "summary", "transactions", "website", "contact",
     "customer_account_number", "sections"}

\* get_random_text_style: one of PROFESSIONAL_FONTS
StyleFont == "Times-Roman"

TextBlock(n) ==
    [type |-> "text", nLines |-> n, dataKey |-> "", hasData |-> FALSE,
     nData |-> 0, colLens |-> <<>>, headers |-> <<>>, hasProps |-> FALSE,
     props |-> <<>>]

\* a table of literal rows ("data")
DataTable(n, col_lens, headers, props) ==
    [type |-> "table", nLines |-> 0, dataKey |-> "", hasData |-> TRUE,
     nData |-> n, colLens |-> col_lens, headers |-> headers,
     hasProps |-> TRUE, props |-> props]

\* a table of a named source ("data_key")
KeyTable(key, col_lens, headers, props) ==
    [type |-> "table", nLines |-> 0, dataKey |-> key, hasData |-> FALSE,
     nData |-> 0, colLens |-> col_lens, headers |-> headers,
     hasProps |-> TRUE, props |-> props]

Section(title, content) == [title |-> title, content |-> content]

TxHeaders == <<"Date", "Description", "Amount", "Balance">>

\* middle_sections when ctx['sections'] is empty
DefaultSections(c) ==
    <<Section("Important Account Information", <<TextBlock(c.nInfo)>>),
      Section("Account Summary",
              <<[DataTable(4, <<22, 10>>, <<>>, <<750, 250>>)
                   EXCEPT !.hasProps = TRUE]>>),
      Section("Transaction History",
              <<KeyTable("transactions", <<5, 30, 10, 10>>, TxHeaders,
                         <<150, 450, 200, 200>>)>>)>>

\* get_section_order with titles it does not know placed first.
GetSectionOrderUnknownFirst(title) ==
    CASE title = "Welcome Message" -> 1
      [] title = "Important Account Information" -> 2
      [] title = "Account Summary" -> 3
      [] title = "Transaction and Interest Summary" -> 4
      [] title = "Transaction History" -> 5
      [] title = "Daily Ending Balance" -> 6
      [] OTHER -> 0

\* get_section_order(title)
GetSectionOrder(title) ==
    CASE title = "Welcome Message" -> 1
      [] title = "Important Account Information" -> 2
      [] title = "Account Summary" -> 3
      [] title = "Transaction and Interest Summary" -> 4
      [] title = "Transaction History" -> 5
      [] title = "Daily Ending Balance" -> 6
      [] OTHER -> 10

RECURSIVE InsertByOrder(_, _)
InsertByOrder(x, s) ==
    IF s = <<>> THEN <<x>>
    ELSE IF GetSectionOrder(Head(s).title) <= GetSectionOrder(x.title)
    THEN <<Head(s)>> \o InsertByOrder(x, Tail(s))
    ELSE <<x>> \o s

RECURSIVE SortSections(_)
\* middle_sections.sort(key=lambda x: get_section_order(x["title"]))
SortSections(s) ==
    IF s = <<>> THEN <<>>
    ELSE InsertByOrder(s[Len(s)], SortSections(SubSeq(s, 1, Len(s) - 1)))

MiddleSections(c) ==
    SortSections(IF c.sections = <<>> THEN DefaultSections(c) ELSE c.sections)

RECURSIVE Flat(_)
Flat(ss) == IF ss = <<>> THEN <<>> ELSE Head(ss) \o Flat(Tail(ss))

TblId(si, ci) == "s" \o ToString(si) \o "c" \o ToString(ci)

LedgerTitles == {"Transaction History", "Daily Ending Balance"}

LedgerKeys ==
    {"transactions", "daily_balances", "transaction_and_interest_summary"}

\* the rows the table's source yields
ResolvedRows(c, ct) ==
    CASE ct.dataKey = "transactions" -> c.nTx
      [] ct.dataKey = "daily_balances" -> c.nDaily
      [] ct.dataKey = "transaction_and_interest_summary" -> 14
      [] OTHER -> IF ct.hasData THEN ct.nData ELSE 0

DynLogo(c) ==
    IF LogoOf(c) = "ok"
    THEN <<ChkP("y", c.logoH + Pt(40), "Helvetica", Pt(12)),
           Drw("y", c.logoH + Pt(10), "image", "none"),
           Dec("y", c.logoH + Pt(40)),
           Lg("logo_rendered")>>
    ELSE <<LogoWarning(c),
           ChkP("y", Pt(14), "Helvetica", Pt(12)),
           SetF("Helvetica", Pt(12)),
           Drw("y", 0, "placeholder", "none"),
           Dec("y", Pt(14))>>

DynHeader(c) ==
    DynLogo(c)
    \o <<ChkP("y", Pt(28), "Helvetica", Pt(12)),
         SetF(StyleFont, c.hsize),
         Drw("y", 0, "text", "none"), Dec("y", c.hsize + Pt(4)),
         SetF(StyleFont, c.csize)>>
    \o Rep(c.nAddr, <<ChkP("y", c.csize + Pt(4), StyleFont, c.csize),
                      Drw("y", 0, "text", "none"),
                      Dec("y", c.csize + Pt(4))>>)
    \o <<SetF(StyleFont, c.hsize),
         ChkP("y", c.hsize + Pt(4), StyleFont, c.hsize),
         Drw("y", 0, "heading", "none"), Dec("y", c.hsize + Pt(12)),
         Lg("layout")>>

\* a text block: one check_page_break call for the whole paragraph
DynText(c, ct) ==
    <<SetF(StyleFont, c.csize),
      ChkP("y", ct.nLines * (c.csize + Pt(4)), StyleFont, c.csize)>>
    \o Rep(ct.nLines, <<Drw("y", 0, "para", "none"),
                        Dec("y", c.csize + Pt(4))>>)

\* The header drawn whenever the header row alone fits above the margin.
HdrIfHeaderAlone(c, need, dec, tbl, raises) ==
    [op |-> "hdrif", c |-> c, need |-> dec, d |-> dec, tbl |-> tbl,
     raises |-> raises]

\* if headers and y_position - (header_height + row_height) >= margin:
\*     draw the header row; y_position -= size + 4
HdrIf(c, need, dec, tbl, raises) ==
    [op |-> "hdrif", c |-> c, need |-> need, d |-> dec, tbl |-> tbl,
     raises |-> raises]

\* col_widths[i] read for the right-aligned columns 2 and 3 of a ledger
LedgerCellRaises(title, ncells, ncw) ==
    /\ title \in LedgerTitles
    /\ \E i \in {2, 3} : i < ncells /\ i >= ncw

\* col_widths[1] read for the centred column of the Account Summary
SummaryCellRaises(title, ncells, ncw) ==
    title = "Account Summary" /\ ncells >= 2 /\ ncw < 2

\* the table branch: width is usable_width (sequential) or col_width
\* (two-column); is_table as the arrangement passes it
DynTable(c, title, ct, tbl, width, is_table) ==
    LET n0       == ResolvedRows(c, ct)
        nrows    == IF n0 = 0 THEN 1 ELSE n0
        col_lens == IF n0 = 0 THEN [i \in 1..Len(ct.headers) |-> 17]
                    ELSE ct.colLens
        ncols    == Len(col_lens)
        props    == IF ct.hasProps THEN ct.props
                    ELSE [i \in 1..ncols |-> 1000 \div ncols]
        cwErr    == ColWidthsError(nrows, col_lens, props)
        cw       == CalculateDynamicColWidths(nrows, col_lens, width, props,
                                              c.factor)
        rh       == c.csize + Pt(4)
        rowErr   == LedgerCellRaises(title, ncols, Len(cw))
                    \/ SummaryCellRaises(title, ncols, Len(cw))
    IN  <<SetF(StyleFont, c.csize)>>
        \o (IF n0 = 0 THEN <<Lg("warn_no_data")>> ELSE <<>>)
        \o (IF ncols = 0
            THEN <<Raise("ZeroDivisionError", "col_widths", "table")>>
            ELSE IF cwErr # ""
            THEN <<Raise(cwErr, "col_widths", "table")>>
            ELSE
              (IF ct.headers # <<>>
               THEN <<HdrIf("y", 2 * rh, rh, tbl,
                            LedgerCellRaises(title, Len(ct.headers),
                                             Len(cw)))>>
               ELSE <<>>)
              \o (IF rowErr
                  THEN <<Chk("y", rh, StyleFont, c.csize, is_table,
                             ct.headers, cw, "", tbl),
                         Raise("IndexError", "col_widths", "row")>>
                  ELSE Rep(nrows,
                           <<Chk("y", rh, StyleFont, c.csize, is_table,
                                 ct.headers, cw, "", tbl),
                             Drw("y", 0, "row", tbl),
                             Dec("y", rh)>>))
              \o (IF ct.dataKey \in LedgerKeys /\ ~rowErr
                  THEN <<Drw("y", 0, "rule", "none")>> ELSE <<>>)
              \o <<Dec("y", Pt(12))>>)

DynContent(c, title, ct, tbl, width, is_table) ==
    (IF ct.type = "text" THEN DynText(c, ct)
     ELSE IF ct.type = "table"
     THEN DynTable(c, title, ct, tbl, width, is_table)
     ELSE <<SetF(StyleFont, c.csize)>>)
    \o <<Dec("y", Pt(12))>>

\* "size" of a content block, as randomize.py and the default sections
\* write it
BlockSize == Pt(10)

\* the grey box of the Account Summary (sequential arrangement only):
\* c.rect(margin - 8, y_position - 20 + 8 - 4.5 * (size + 4), ...)

SummaryBox(sec) ==
    IF sec.content = <<>>
    THEN <<Raise("IndexError", "content", "summary_box")>>
    ELSE LET ct    == sec.content[1]
             nrows == IF ct.hasData THEN ct.nData ELSE 0
             props == IF ct.hasProps THEN ct.props ELSE <<750, 250>>
             e     == ColWidthsError(nrows, ct.colLens, props)
         IN  IF e # "" THEN <<Raise(e, "col_widths", "summary_box")>>
             ELSE IF ~ct.hasData
             THEN <<Raise("KeyError", "data", "summary_box")>>
             ELSE <<Drw("y", Pt(12) + (9 * (BlockSize + Pt(4))) \div 2, "box",
                        "none")>>

DynSection(c, sec, si, two) ==
    <<ChkP("y", c.hsize + Pt(4), StyleFont, c.hsize),
      SetF(StyleFont, c.hsize)>>
    \o (IF ~two /\ sec.title = "Account Summary" THEN SummaryBox(sec)
        ELSE <<>>)
    \o <<Drw("y", 0, "section", "none"), Dec("y", c.hsize + Pt(4))>>
    \o Flat([ci \in 1..Len(sec.content) |->
               DynContent(c, sec.title, sec.content[ci], TblId(si, ci),
                          IF two THEN UsableWidth(c.layout) \div 2 - Pt(10)
                          ELSE UsableWidth(c.layout),
                          two \/ sec.title \in LedgerTitles)])

DynFooter(c) ==
    <<ChkP("y", Pt(60), "Helvetica", Pt(8)),
      Drw("y", 0 - Pt(20), "rule", "none"),
      SetF(StyleFont, c.csize)>>
    \o Rep(c.nFoot, <<ChkP("y", c.csize + Pt(2), StyleFont, c.csize),
                      Drw("y", 0, "para", "none"),
                      Dec("y", c.csize + Pt(2))>>)
    \o <<Dec("y", Pt(12))>>

DynProgram(c) ==
    LET secs == MiddleSections(c)
        two  == c.layout = "dyn_two"
    IN  <<Val, Dft, Bind, Canvas, SetTop("y", 0)>>
        \o DynHeader(c)
        \o <<Srt>>
        \o Flat([si \in 1..Len(secs) |-> DynSection(c, secs[si], si, two)])
        \o DynFooter(c)
        \o <<Save, Lg("generated")>>

----------------------------------------------------------------------------
(* The records rendered *)

MaxTx == 56

MaxLines == 6

MaxPara == 64

Keys ==
    {"customer_account_number", "logo_path", "customer_bank_name",
     "account_type", "account_holder", "account_holder_address",
     "statement_period", "statement_date", "transactions", "summary",
     "deposits", "withdrawals", "daily_balances", "bank_name", "website",
     "contact", "sections"}

LogoStates == {"ok", "unreadable", "empty"}

\* summary_keys of create_dynamic_statement
SummaryKeys ==
    {"beginning_balance", "deposits_total", "withdrawals_total",
     "ending_balance"}

\* transaction_keys of create_dynamic_statement
TransactionKeys ==
    {"date", "description", "deposits_credits", "withdrawals_debits",
     "ending_balance"}

\* a complete record with a few transactions
Base(layout) ==
    [layout |-> layout, missing |-> "none", logo |-> "ok", logoH |-> Pt(46),
     nTx |-> 3, nDep |-> 3, nWd |-> 3, nDaily |-> 3, nAddr |-> 2,
     nInfo |-> 5, nFoot |-> 4, nHelp |-> 12, nIntro |-> 3, nRoute |-> 4,
     fee |-> 0, hsize |-> Pt(14), csize |-> Pt(10), factor |-> 1000,
     sections |-> <<>>, summaryKeys |-> SummaryKeys,
     txKeys |-> TransactionKeys \cup {"credit", "debit", "balance"}]

FixedConfigs ==
    UNION { {[Base(l) EXCEPT !.nTx = n, !.nDep = n] : n \in 0..MaxTx}
            \cup (IF l \in {"chase", "pnc"}
                  THEN {[Base(l) EXCEPT !.nWd = n, !.nDep = MaxTx - n]
                          : n \in 0..MaxTx}
                  ELSE {})
            \cup (IF l = "chase"
                  THEN {[Base(l) EXCEPT !.nDaily = n, !.fee = n % 3,
                                        !.nDep = MaxTx]
                          : n \in 0..MaxTx}
                  ELSE {})
            \cup {[Base(l) EXCEPT !.logo = g, !.nTx = MaxTx] : g \in LogoStates}
            \cup {[Base(l) EXCEPT !.missing = k] : k \in Keys}
            \cup {[Base(l) EXCEPT !.nInfo = n, !.nTx = MaxTx, !.nDep = MaxTx]
                    : n \in 1..MaxLines}
          : l \in FixedLayouts }

\* the sections randomize.py builds: a ledger with headers and tables
\* without headers
GeneratedSections ==
    <<Section("Important Account Information", <<TextBlock(4)>>),
      Section("Transaction History",
              <<KeyTable("transactions", <<5, 30, 10, 10>>, TxHeaders,
                         <<125, 375, 250, 250>>)>>),
      Section("Customer Service",
              <<DataTable(3, <<20, 14>>, <<>>, <<375, 125>>)>>),
      Section("Daily Ending Balance",
              <<KeyTable("daily_balances", <<5, 10>>, <<>>, <<375, 125>>)>>)>>

\* a table with headers under a title of the record's own choosing,
\* after a paragraph of k lines
FeeSections(k, n) ==
    <<Section("Welcome Message", <<TextBlock(k)>>),
      Section("Fees",
              <<DataTable(n, <<12, 10>>, <<"Fee", "Amount">>,
                          <<500, 500>>)>>)>>

\* a ledger after a paragraph of k lines
LedgerSections(k) ==
    <<Section("Welcome Message", <<TextBlock(k)>>),
      Section("Transaction History",
              <<KeyTable("transactions", <<5, 30, 10, 10>>, TxHeaders,
                         <<150, 450, 200, 200>>)>>)>>

\* randomize.py's Account Summary: data_key "account_summary", no "data"
SummarySections ==
    <<Section("Account Summary",
              <<KeyTable("account_summary", <<>>, <<>>, <<375, 125>>)>>)>>

\* a table with neither rows nor headers nor col_widths
BareSections ==
    <<Section("Notes",
              <<[KeyTable("", <<>>, <<>>, <<>>) EXCEPT !.hasProps = FALSE]>>)>>

\* randomize.py's Transaction and Interest Summary: four proportions for
\* rows of two cells
InterestSections ==
    <<Section("Transaction and Interest Summary",
              <<KeyTable("transaction_and_interest_summary", <<30, 10>>,
                         <<>>, <<375, 125, 375, 125>>)>>)>>

DynConfigs ==
    UNION { {[Base(l) EXCEPT !.nTx = n] : n \in 0..MaxTx}
            \cup {[Base(l) EXCEPT !.logo = g] : g \in LogoStates}
            \cup {[Base(l) EXCEPT !.missing = k] : k \in Keys}
            \cup {[Base(l) EXCEPT !.hsize = Pt(h), !.csize = Pt(b),
                                  !.nTx = MaxTx]
                    : h \in {12, 16}, b \in {8, 12}}
            \cup {[Base(l) EXCEPT !.sections = GeneratedSections,
                                  !.nTx = MaxTx, !.nDaily = n]
                    : n \in {0, MaxTx}}
            \cup {[Base(l) EXCEPT !.sections = FeeSections(k, MaxTx)]
                    : k \in 0..MaxTx}
            \cup {[Base(l) EXCEPT !.sections = FeeSections(k, 2)]
                    : k \in (MaxTx - 4)..MaxTx}
            \cup {[Base(l) EXCEPT !.sections = LedgerSections(k), !.nTx = 2]
                    : k \in (MaxTx - 4)..MaxTx}
            \cup {[Base(l) EXCEPT !.sections = LedgerSections(k),
                                  !.nTx = MaxTx]
                    : k \in {0, MaxPara}}
            \cup {[Base(l) EXCEPT !.sections = s]
                    : s \in {SummarySections, BareSections,
                             InterestSections}}
            \cup {[Base(l) EXCEPT !.summaryKeys = @ \ {k}]
                    : k \in SummaryKeys}
            \cup {[Base(l) EXCEPT !.txKeys = @ \ {k}, !.nTx = n]
                    : k \in TransactionKeys, n \in {0, 2}}
          : l \in DynLayouts }

Configs == FixedConfigs \cup DynConfigs

Required(layout) ==
    CASE layout = "citi" -> CitiRequired
      [] layout = "chase" -> ChaseRequired
      [] layout = "wells" -> WellsRequired
      [] layout = "pnc" -> PncRequired
      [] OTHER -> DynRequired

Program(c) ==
    CASE c.layout = "citi" -> CitiProgram(c)
      [] c.layout = "chase" -> ChaseProgram(c)
      [] c.layout = "wells" -> WellsProgram(c)
      [] c.layout = "pnc" -> PncProgram(c)
      [] OTHER -> DynProgram(c)

ProgTable == [c \in Configs |-> Program(c)]

----------------------------------------------------------------------------
(* One render call *)

Cursors == {"y", "l", "r", "g"}

NoCall ==
    [c |-> "none", yIn |-> 0, space |-> 0, fsize |-> 0, is_table |-> FALSE,
     headers |-> <<>>, col_widths |-> <<>>, tbl |-> "none", pageIn |-> 0,
     rowsIn |-> 0, hdr |-> FALSE]

NoDraw ==
    [kind |-> "none", tbl |-> "none", c |-> "none", y |-> 0, page |-> 0,
     checked |-> FALSE, by |-> NoCall, font |-> NoFont]

NoErr == [type |-> "none", key |-> "", at |-> ""]

\* the parts of the record a render can write to: the order of
\* ctx['sections'], the keys of ctx['summary'], the keys of each
\* transaction dict (none when there is no transaction)
CtxOf(c) ==
    [sections |-> c.sections, summary |-> c.summaryKeys,
     tx |-> IF c.nTx = 0 THEN {} ELSE c.txKeys]

\* no function is being run on its own
NoUnit == [fn |-> "none"]

NewTab(t) ==
    [id |-> t, headed |-> FALSE, hdrs |-> <<>>, hdrY |-> 0, rows |-> 0,
     rowsHere |-> 0, brk |-> 0, brkRows |-> 0]

TabOf(t) == IF tab.id = t THEN tab ELSE NewTab(t)

Init ==
    /\ cfg \in Configs
    /\ status = "run"
    /\ pc = 1
    /\ cur = [c \in Cursors |-> 0]
    /\ page = 1
    /\ font = NoFont
    /\ call = NoCall
    /\ last = NoDraw
    /\ tab = NewTab("none")
    /\ kinds = {}
    /\ logs = <<>>
    /\ canvas = FALSE
    /\ saved = 0
    /\ err = NoErr
    /\ bound = FALSE
    /\ ctx = CtxOf(cfg)
    /\ heads = <<>>
    /\ unit = NoUnit

Prog == ProgTable[cfg]

At(op) == status = "run" /\ pc <= Len(Prog) /\ Prog[pc].op = op

Instr == Prog[pc]

M == Margin(cfg.layout)

\* a cursor written by the caller is no longer the one check_page_break
\* returned
Moved(c) == IF call.c = c THEN NoCall ELSE call

\* for key in required_keys: if key not in ctx: raise ValueError(...)
Validate ==
    /\ At("validate")
    /\ IF cfg.missing \in Required(cfg.layout)
       THEN /\ err' = [type |-> "ValueError", key |-> cfg.missing,
                       at |-> "validate"]
            /\ status' = "raised"
            /\ pc' = pc
       ELSE /\ pc' = pc + 1
            /\ UNCHANGED <<err, status>>
    /\ UNCHANGED <<ctx, heads, unit>>
    /\ UNCHANGED <<cfg, cur, page, font, call, last, tab, kinds, logs,
                   canvas, saved, bound>>

\* ctx[key] raises KeyError when the record has no such key
Access ==
    /\ At("access")
    /\ IF cfg.missing = Instr.key
       THEN /\ err' = [type |-> "KeyError", key |-> Instr.key,
                       at |-> "access"]
            /\ status' = "raised"
            /\ pc' = pc
       ELSE /\ pc' = pc + 1
            /\ UNCHANGED <<err, status>>
    /\ UNCHANGED <<ctx, heads, unit>>
    /\ UNCHANGED <<cfg, cur, page, font, call, last, tab, kinds, logs,
                   canvas, saved, bound>>

\* A raising expression whose exception is swallowed: the render goes on.
RaiseStepSwallowed ==
    /\ At("raise")
    /\ err' = [type |-> Instr.type, key |-> Instr.key, at |-> Instr.at]
    /\ pc' = pc + 1
    /\ UNCHANGED <<ctx, heads, unit>>
    /\ UNCHANGED <<cfg, status, cur, page, font, call, last, tab, kinds,
                   logs, canvas, saved, bound>>

RaiseStep ==
    /\ At("raise")
    /\ err' = [type |-> Instr.type, key |-> Instr.key, at |-> Instr.at]
    /\ status' = "raised"
    /\ UNCHANGED <<ctx, heads, unit>>
    /\ UNCHANGED <<cfg, pc, cur, page, font, call, last, tab, kinds, logs,
                   canvas, saved, bound>>

\* if key not in ctx['summary']: ctx['summary'][key] = "$0.00"
\* if key not in tx: tx[key] = ""
FillDefaults ==
    /\ At("defaults")
    /\ ctx' = [ctx EXCEPT !.summary = @ \cup SummaryKeys,
                          !.tx = IF cfg.nTx = 0 THEN @
                                 ELSE @ \cup TransactionKeys]
    /\ logs' = IF ctx'.summary # ctx.summary \/ ctx'.tx # ctx.tx
               THEN Append(logs, "warn_missing_key") ELSE logs
    /\ pc' = pc + 1
    /\ UNCHANGED <<heads, unit>>
    /\ UNCHANGED <<cfg, status, cur, page, font, call, last, tab, kinds,
                   canvas, saved, err, bound>>

\* middle_sections is ctx['sections'] itself unless that list is empty,
\* and list.sort works in place
SortInPlace ==
    /\ At("sort")
    /\ ctx' = [ctx EXCEPT !.sections = SortSections(@)]
    /\ pc' = pc + 1
    /\ UNCHANGED <<heads, unit>>
    /\ UNCHANGED <<cfg, status, cur, page, font, call, last, tab, kinds,
                   logs, canvas, saved, err, bound>>

BindBankName ==
    /\ At("bind")
    /\ bound' = TRUE
    /\ pc' = pc + 1
    /\ UNCHANGED <<ctx, heads, unit>>
    /\ UNCHANGED <<cfg, status, cur, page, font, call, last, tab, kinds,
                   logs, canvas, saved, err>>

CreateCanvas ==
    /\ At("canvas")
    /\ canvas' = TRUE
    /\ pc' = pc + 1
    /\ UNCHANGED <<ctx, heads, unit>>
    /\ UNCHANGED <<cfg, status, cur, page, font, call, last, tab, kinds,
                   logs, saved, err, bound>>

Assign ==
    /\ status = "run" /\ pc <= Len(Prog)
    /\ Instr.op \in {"copy", "top", "min"}
    /\ cur' = [cur EXCEPT ![Instr.dst] =
                 CASE Instr.op = "copy" -> cur[Instr.src] + Instr.d
                   [] Instr.op = "top" ->
                        TopOfPage(PAGE_HEIGHT, M) - Instr.d
                   [] OTHER -> Min(cur[Instr.a], cur[Instr.b]) - Instr.d]
    /\ call' = Moved(Instr.dst)
    /\ pc' = pc + 1
    /\ UNCHANGED <<ctx, heads, unit>>
    /\ UNCHANGED <<cfg, status, page, font, last, tab, kinds, logs, canvas,
                   saved, err, bound>>

Advance ==
    /\ At("dec")
    /\ cur' = [cur EXCEPT ![Instr.c] = @ - Instr.d]
    /\ call' = Moved(Instr.c)
    /\ pc' = pc + 1
    /\ UNCHANGED <<ctx, heads, unit>>
    /\ UNCHANGED <<cfg, status, page, font, last, tab, kinds, logs, canvas,
                   saved, err, bound>>

SetFont ==
    /\ At("font")
    /\ font' = Font(Instr.name, Instr.size)
    /\ pc' = pc + 1
    /\ UNCHANGED <<ctx, heads, unit>>
    /\ UNCHANGED <<cfg, status, cur, page, call, last, tab, kinds, logs,
                   canvas, saved, err, bound>>

AppendLog ==
    /\ At("log")
    /\ logs' = Append(logs, Instr.kind)
    /\ pc' = pc + 1
    /\ UNCHANGED <<ctx, heads, unit>>
    /\ UNCHANGED <<cfg, status, cur, page, font, call, last, tab, kinds,
                   canvas, saved, err, bound>>

CheckStep ==
    /\ At("check")
    /\ LET i == Instr
           r == CheckPageBreak(cur[i.c], M, PAGE_HEIGHT, i.space, i.fname,
                               i.fsize, i.is_table, i.headers, i.col_widths,
                               i.header_font, font)
           t == TabOf(i.tbl)
       IN  /\ cur' = [cur EXCEPT ![i.c] = r.y]
           /\ page' = IF r.broke THEN page + 1 ELSE page
           /\ font' = r.font
           /\ call' = [c |-> i.c, yIn |-> cur[i.c], space |-> i.space,
                       fsize |-> i.fsize, is_table |-> i.is_table,
                       headers |-> i.headers, col_widths |-> i.col_widths,
                       tbl |-> i.tbl, pageIn |-> page, rowsIn |-> t.rows,
                       hdr |-> r.hdr]
           /\ kinds' = IF r.hdr THEN kinds \cup {"header"} ELSE kinds
           /\ tab' = IF i.tbl = "none" THEN tab
                     ELSE IF ~r.broke
                     THEN [t EXCEPT !.headed = @ \/ i.headers # <<>>]
                     ELSE [t EXCEPT !.headed = @ \/ i.headers # <<>>,
                                    !.brk = @ + 1, !.rowsHere = 0,
                                    !.brkRows = IF t.rows >= 1 THEN @ + 1
                                                ELSE @,
                                    !.hdrs = IF r.hdr THEN Append(@, page + 1)
                                             ELSE @,
                                    !.hdrY = IF r.hdr THEN r.hdrY ELSE @]
           /\ IF r.raised
              THEN /\ err' = [type |-> "IndexError", key |-> "col_widths",
                              at |-> "check_page_break"]
                   /\ status' = "raised"
                   /\ pc' = pc
              ELSE /\ pc' = pc + 1
                   /\ UNCHANGED <<err, status>>
    /\ UNCHANGED <<ctx, heads, unit>>
    /\ UNCHANGED <<cfg, last, logs, canvas, saved, bound>>

DrawStep ==
    /\ At("draw")
    /\ LET i == Instr
           t == TabOf(i.tbl)
       IN  /\ last' = [kind |-> i.kind, tbl |-> i.tbl, c |-> i.c,
                       y |-> cur[i.c] - i.off, page |-> page,
                       checked |-> call.c = i.c /\ i.off <= call.space,
                       by |-> call, font |-> font]
           /\ kinds' = kinds \cup {i.kind}
           /\ tab' = CASE i.kind = "header" ->
                            [t EXCEPT !.headed = TRUE,
                                      !.hdrs = Append(@, page),
                                      !.hdrY = cur[i.c] - i.off]
                       [] i.kind = "row" ->
                            [t EXCEPT !.rows = @ + 1, !.rowsHere = @ + 1]
                       [] OTHER -> tab
           /\ heads' = IF i.kind = "section"
                       THEN Append(heads, [c |-> i.c, y |-> cur[i.c],
                                           page |-> page])
                       ELSE heads
    /\ pc' = pc + 1
    /\ UNCHANGED <<ctx, unit>>
    /\ UNCHANGED <<cfg, status, cur, page, font, call, logs, canvas, saved,
                   err, bound>>

\* the header row a dynamic table starts with, when header and first row
\* fit above the margin
HeaderIfFits ==
    /\ At("hdrif")
    /\ LET i == Instr
           t == TabOf(i.tbl)
       IN  IF cur[i.c] - i.need >= M
           THEN IF i.raises
                THEN /\ err' = [type |-> "IndexError", key |-> "col_widths",
                                at |-> "header"]
                     /\ status' = "raised"
                     /\ UNCHANGED <<pc, cur, call, last, kinds, tab>>
                ELSE /\ last' = [kind |-> "header", tbl |-> i.tbl, c |-> i.c,
                                 y |-> cur[i.c], page |-> page,
                                 checked |-> FALSE, by |-> NoCall,
                                 font |-> font]
                     /\ kinds' = kinds \cup {"header"}
                     /\ tab' = [t EXCEPT !.headed = TRUE,
                                         !.hdrs = Append(@, page),
                                         !.hdrY = cur[i.c]]
                     /\ cur' = [cur EXCEPT ![i.c] = @ - i.d]
                     /\ call' = Moved(i.c)
                     /\ pc' = pc + 1
                     /\ UNCHANGED <<err, status>>
           ELSE /\ tab' = [t EXCEPT !.headed = TRUE]
                /\ pc' = pc + 1
                /\ UNCHANGED <<err, status, cur, call, last, kinds>>
    /\ UNCHANGED <<ctx, heads, unit>>
    /\ UNCHANGED <<cfg, page, font, logs, canvas, saved, bound>>

SaveStep ==
    /\ At("save")
    /\ saved' = saved + 1
    /\ pc' = pc + 1
    /\ UNCHANGED <<ctx, heads, unit>>
    /\ UNCHANGED <<cfg, status, cur, page, font, call, last, tab, kinds,
                   logs, canvas, err, bound>>

\* the render returns
Return ==
    /\ status = "run" /\ pc = Len(Prog) + 1
    /\ status' = "done"
    /\ UNCHANGED <<ctx, heads, unit>>
    /\ UNCHANGED <<cfg, pc, cur, page, font, call, last, tab, kinds, logs,
                   canvas, saved, err, bound>>

\* except ValueError as e: ... raise / except Exception as e: ... raise
\* The handlers of create_dynamic_statement read bank_name first.
Handler ==
    /\ status = "raised"
    /\ IF cfg.layout \in DynLayouts /\ ~bound
       THEN /\ err' = [type |-> "UnboundLocalError", key |-> "bank_name",
                       at |-> "handler"]
            /\ logs' = logs
       ELSE /\ err' = err
            /\ logs' = Append(logs, "error")
    /\ status' = "failed"
    /\ UNCHANGED <<ctx, heads, unit>>
    /\ UNCHANGED <<cfg, pc, cur, page, font, call, last, tab, kinds, canvas,
                   saved, bound>>

Next ==
    \/ Validate
    \/ Access
    \/ RaiseStep
    \/ FillDefaults
    \/ SortInPlace
    \/ BindBankName
    \/ CreateCanvas
    \/ Assign
    \/ Advance
    \/ SetFont
    \/ AppendLog
    \/ CheckStep
    \/ DrawStep
    \/ HeaderIfFits
    \/ SaveStep
    \/ Return
    \/ Handler

Spec == Init /\ [][Next]_vars

----------------------------------------------------------------------------
(* check_page_break under an arbitrary caller: any sequence of calls,
   with the caller lowering the cursor between them *)

MaxPages == 3

\* space_needed, from nothing to more than a row
CallSpaces == {0, Pt(14), Pt(120)}

\* font_size: the smallest and largest sizes the layouts pass
CallSizes == {Pt(7), Pt(22)}

\* what a caller takes off the cursor after drawing
CallSteps == {Pt(14), Pt(60)}

InitCalls ==
    /\ cfg \in {Base(l) : l \in {"citi", "chase", "wells"}}
    /\ status = "calls"
    /\ pc = 0
    /\ cur = [c \in Cursors |-> PAGE_HEIGHT - Margin(cfg.layout)]
    /\ page = 1
    /\ font = NoFont
    /\ call = NoCall
    /\ last = NoDraw
    /\ tab = NewTab("none")
    /\ kinds = {}
    /\ logs = <<>>
    /\ canvas = TRUE
    /\ saved = 0
    /\ err = NoErr
    /\ bound = TRUE
    /\ ctx = CtxOf(cfg)
    /\ heads = <<>>
    /\ unit = NoUnit

CallCheck ==
    /\ status = "calls"
    /\ page < MaxPages
    /\ \E space \in CallSpaces, fsize \in CallSizes, is_table \in BOOLEAN,
          headers \in {<<>>, CitiHeaders} :
         LET r == CheckPageBreak(cur["y"], M, PAGE_HEIGHT, space, "Helvetica",
                                 fsize, is_table, headers, CitiColWidths, "",
                                 font)
         IN  /\ cur' = [cur EXCEPT !["y"] = r.y]
             /\ page' = IF r.broke THEN page + 1 ELSE page
             /\ font' = r.font
             /\ call' = [c |-> "y", yIn |-> cur["y"], space |-> space,
                         fsize |-> fsize, is_table |-> is_table,
                         headers |-> headers, col_widths |-> CitiColWidths,
                         tbl |-> "none", pageIn |-> page, rowsIn |-> 0,
                         hdr |-> r.hdr]
             /\ kinds' = IF r.hdr THEN kinds \cup {"header"} ELSE kinds
    /\ UNCHANGED <<ctx, heads, unit>>
    /\ UNCHANGED <<cfg, status, pc, last, tab, logs, canvas, saved, err,
                   bound>>

CallerAdvance ==
    /\ status = "calls"
    /\ \E d \in CallSteps :
         /\ cur["y"] - d >= 0 - Pt(60)
         /\ cur' = [cur EXCEPT !["y"] = @ - d]
    /\ call' = NoCall
    /\ UNCHANGED <<ctx, heads, unit>>
    /\ UNCHANGED <<cfg, status, pc, page, font, last, tab, kinds, logs,
                   canvas, saved, err, bound>>

NextCalls ==
    \/ CallCheck
    \/ CallerAdvance

SpecCalls == InitCalls /\ [][NextCalls]_vars

----------------------------------------------------------------------------
(* Properties *)

\* C1: check_page_break starts a new page, with the cursor reset to
\* page_height - margin (less the header row it redraws), exactly when the
\* cursor it was given minus space_needed is below margin; a call with
\* y_position - space_needed >= margin leaves page and cursor as they were.
C1_BreakIffShort ==
    call.c # "none" =>
        LET short == call.yIn - call.space < M
        IN  /\ (page = call.pageIn + 1) <=> short
            /\ short => cur[call.c] = (PAGE_HEIGHT - M)
                            - (IF call.hdr THEN call.fsize + Pt(4) ELSE 0)
            /\ ~short => page = call.pageIn /\ cur[call.c] = call.yIn

\* a call made on a later page with exactly the space it asks for left
\* above the margin, which does not break
C1_Witness ==
    /\ status = "calls"
    /\ call.c # "none"
    /\ call.space > 0
    /\ call.yIn - call.space = M
    /\ call.pageIn >= 2
    /\ page = call.pageIn

\* C2: every cursor check_page_break returns lies between margin and
\* page_height - margin, for calls with space_needed >= 0 given a cursor of
\* at most page_height - margin, header redraw included.
C2_ReturnedWithinPage ==
    (call.c # "none" /\ call.space >= 0 /\ call.yIn <= PAGE_HEIGHT - M) =>
        /\ M <= cur[call.c]
        /\ cur[call.c] <= PAGE_HEIGHT - M

\* a call given a cursor below the margin that broke and redrew the header
C2_Witness ==
    /\ status = "calls"
    /\ call.c # "none"
    /\ call.hdr
    /\ call.yIn < M
    /\ call.fsize = Pt(22)
    /\ cur[call.c] = PAGE_HEIGHT - M - Pt(26)

\* C3: in the Citi transaction table and in every dynamic table with
\* headers, the header row is drawn exactly once while no page break has
\* occurred in the table, and exactly twice, on two different pages, when
\* exactly one break occurred between its rows.
C3_HeaderOncePerPage ==
    (cfg.layout \in {"citi"} \cup DynLayouts /\ tab.headed /\ tab.rows >= 1) =>
        /\ tab.brk = 0 => Len(tab.hdrs) = 1
        /\ (tab.brk = 1 /\ tab.brkRows = 1) =>
               /\ Len(tab.hdrs) = 2
               /\ tab.hdrs[1] # tab.hdrs[2]

\* the tables C4 speaks of
TxTables == {"citi_tx", "wells_tx"}

\* C4: when a transaction row is checked with less than its height left
\* above the margin, the page is broken before the row is drawn, the header
\* is redrawn at the top of the new page, and the rows drawn since the
\* check are exactly the rows on the new page, the checked row first.
C4_BreakBeforeRow ==
    (call.c # "none" /\ call.tbl \in TxTables
       /\ call.yIn - call.space < M) =>
        /\ page = call.pageIn + 1
        /\ call.hdr
        /\ tab.hdrY = PAGE_HEIGHT - M
        /\ tab.hdrs # <<>> /\ tab.hdrs[Len(tab.hdrs)] = page
        /\ tab.rowsHere <= 1
        /\ tab.rows - call.rowsIn = tab.rowsHere
        /\ (last.kind = "row" /\ tab.rowsHere = 1) =>
               /\ last.page = page
               /\ last.y < tab.hdrY

\* the row that did not fit is the first row of the second page of the
\* Citi table
C4_Witness ==
    /\ cfg.layout = "citi"
    /\ call.tbl = "citi_tx"
    /\ call.yIn - call.space < M
    /\ call.rowsIn >= 2
    /\ last.kind = "row"
    /\ last.page = call.pageIn + 1
    /\ tab.rowsHere = 1

\* C5: in every layout, a data row of a table that has a header row is
\* drawn under a check_page_break call made for that table with
\* is_table = true, the table's headers and its column widths.
C5_RowsCheckedAsTable ==
    (last.kind = "row" /\ tab.id = last.tbl /\ tab.headed) =>
        /\ last.by.c = last.c
        /\ last.by.tbl = last.tbl
        /\ last.by.is_table
        /\ last.by.headers # <<>>
        /\ last.by.col_widths # <<>>

\* what a layout draws as text
TextKinds ==
    {"text", "heading", "para", "row", "fixedrow", "norow", "total",
     "header", "placeholder"}

\* C6: in the fixed layouts every line of text drawn at the running cursor
\* is drawn at the value check_page_break returned, for at least the room
\* the draw takes below the cursor, with no decrement of the cursor since
\* that call.
C6_DrawsChecked ==
    (cfg.layout \in FixedLayouts /\ last.kind \in TextKinds /\ last.c = "y")
        => last.checked

\* C7: no line of a paragraph is drawn with the cursor below the margin,
\* whatever the number of lines the paragraph wraps to, in the dynamic
\* arrangements as in the fixed layouts.
C7_NoLineBelowMargin ==
    last.kind = "para" => last.y >= M

\* C8: in each fixed layout a record without account_holder is refused
\* with an error naming account_holder before the canvas exists and before
\* anything is drawn.
C8_MissingHolderRefused ==
    (cfg.layout \in FixedLayouts /\ cfg.missing = "account_holder") =>
        /\ ~canvas
        /\ kinds = {}
        /\ status # "done"
        /\ status \in {"raised", "failed"} => err.key = "account_holder"

\* C9: create_dynamic_statement given a record without one of its
\* required keys raises ValueError naming that key to its caller, before
\* the canvas exists; the handler does not put another error in its place.
C9_ValueErrorReachesCaller ==
    (cfg.layout \in DynLayouts /\ cfg.missing \in DynRequired) =>
        /\ ~canvas
        /\ status # "done"
        /\ status \in {"raised", "failed"} =>
               /\ err.type = "ValueError"
               /\ err.key = cfg.missing

\* the logo reference of a record that passed validation is empty or
\* cannot be read
BadLogo ==
    /\ LogoOf(cfg) # "ok"
    /\ cfg.missing \notin Required(cfg.layout)
    /\ cfg.sections = <<>>

\* C10: in every layout a record whose logo is empty or unreadable is
\* rendered without an error: the warning is logged, the bracketed
\* placeholder is drawn, and the render goes on to its one save.
C10_LogoFallback ==
    BadLogo =>
        /\ status \notin {"raised", "failed"}
        /\ err.at # "logo"
        /\ saved = 1 =>
               /\ "placeholder" \in kinds
               /\ \E k \in 1..Len(logs) :
                      logs[k] \in {"warn_logo_missing", "warn_logo_failed"}
        /\ status = "done" => saved = 1

\* the Citi render of a record with an unreadable logo has returned
C10_Witness ==
    /\ cfg.layout = "citi"
    /\ LogoOf(cfg) = "unreadable"
    /\ status = "done"
    /\ saved = 1
    /\ "placeholder" \in kinds

----------------------------------------------------------------------------
(* Empty tables, the input record, the two-column arrangement *)

\* the table blocks of the record whose source yields no row
EmptyTables(c) ==
    LET secs == MiddleSections(c)
    IN  UNION {{TblId(si, ci) : ci \in {k \in 1..Len(secs[si].content) :
                    /\ secs[si].content[k].type = "table"
                    /\ ResolvedRows(c, secs[si].content[k]) = 0}}
               : si \in 1..Len(secs)}

\* C11: in both arrangements of the dynamic layout a table block whose
\* source yields no row gets exactly one placeholder row and a logged
\* warning, and the render runs to its save without raising, whatever the
\* block's headers and col_widths are.
C11_EmptyTableGetsPlaceholder ==
    (/\ cfg.layout \in DynLayouts
     /\ cfg.missing \notin DynRequired
     /\ EmptyTables(cfg) # {}) =>
        /\ status \notin {"raised", "failed"}
        /\ status = "done" =>
              /\ saved = 1
              /\ \E k \in 1..Len(logs) : logs[k] = "warn_no_data"
        /\ (last.kind = "row" /\ last.tbl \in EmptyTables(cfg)
              /\ tab.id = last.tbl) => tab.rows = 1

\* C16: create_dynamic_statement leaves its input record as it was: the
\* order of ctx['sections'], the keys of ctx['summary'] and the keys of
\* every transaction dict are the same after the call as before.
C16_RecordUnchanged ==
    (cfg.layout \in DynLayouts /\ status = "done") => ctx = CtxOf(cfg)

\* C17: in the two-column arrangement consecutive sections go to
\* different columns, each with its own cursor: the second section starts
\* on another cursor than the first and, on the same page, is not pushed
\* down by what the first section drew.
C17_ColumnsAlternate ==
    (cfg.layout = "dyn_two" /\ Len(heads) >= 2) =>
        /\ heads[2].c # heads[1].c
        /\ heads[2].page = heads[1].page => heads[2].y >= heads[1].y

----------------------------------------------------------------------------
(* Functions run on their own.  The render variables stand still. *)

renderVars ==
    <<cfg, status, pc, cur, page, font, call, last, tab, kinds, logs,
      canvas, saved, err, bound, ctx, heads>>

Idle ==
    /\ cfg = Base("citi")
    /\ status = "idle"
    /\ pc = 0
    /\ cur = [c \in Cursors |-> 0]
    /\ page = 1
    /\ font = NoFont
    /\ call = NoCall
    /\ last = NoDraw
    /\ tab = NewTab("none")
    /\ kinds = {}
    /\ logs = <<>>
    /\ canvas = FALSE
    /\ saved = 0
    /\ err = NoErr
    /\ bound = TRUE
    /\ ctx = CtxOf(cfg)
    /\ heads = <<>>

----------------------------------------------------------------------------
(* format_text *)

MaxParts == 3

\* the pieces a template is made of: literal text, "{{", "{name}", "{}",
\* "{name.attr}" and a brace with no partner
TemplateParts ==
    {[t |-> "lit", name |-> "", s |-> "Dear "],
     [t |-> "esc", name |-> "", s |-> "{{"],
     [t |-> "field", name |-> "account_holder", s |-> ""],
     [t |-> "field", name |-> "summary", s |-> ""],
     [t |-> "field", name |-> "nofield", s |-> ""],
     [t |-> "pos", name |-> "", s |-> ""],
     [t |-> "attr", name |-> "account_holder", s |-> "x"],
     [t |-> "brace", name |-> "", s |-> "{"]}

Templates == UNION {[1..n -> TemplateParts] : n \in 1..MaxParts}

\* {k: v for k, v in ctx.items() if isinstance(v, str)}: summary is a
\* dict and is left out
StringFields == [account_holder |-> "ANN LEE", bank_name |-> "Chase"]

RECURSIVE StrFormat(_, _)
\* value.format(**kw): the template is read left to right and the first
\* piece that cannot be resolved decides the exception
StrFormat(value, kw) ==
    IF value = <<>> THEN [exc |-> "", out |-> <<>>]
    ELSE LET p == Head(value)
             e == CASE p.t \in {"field", "attr"} /\ p.name \notin DOMAIN kw
                         -> "KeyError"
                    [] p.t = "attr" -> "AttributeError"
                    [] p.t = "pos" -> "IndexError"
                    [] p.t = "brace" -> "ValueError"
                    [] OTHER -> ""
             o == CASE p.t = "field" -> kw[p.name]
                    [] p.t = "esc" -> "{"
                    [] OTHER -> p.s
             r == StrFormat(Tail(value), kw)
         IN  IF e # "" THEN [exc |-> e, out |-> <<>>]
             ELSE IF r.exc # "" THEN r
             ELSE [exc |-> "", out |-> <<o>> \o r.out]

\* except (KeyError, ValueError) as e
Caught == {"KeyError", "ValueError"}

\* format_text(value, ctx) for a string value
FormatText(value, kw) ==
    LET r == StrFormat(value, kw)
    IN  IF r.exc = ""
        THEN [stage |-> "returned", verbatim |-> FALSE, text |-> r.out,
              exc |-> "", warnings |-> 0]
        ELSE IF r.exc \in Caught
        THEN [stage |-> "returned", verbatim |-> TRUE, text |-> <<>>,
              exc |-> "", warnings |-> 1]
        ELSE [stage |-> "raised", verbatim |-> FALSE, text |-> <<>>,
              exc |-> r.exc, warnings |-> 0]

InitFormat ==
    /\ Idle
    /\ \E v \in Templates :
         unit = [fn |-> "format_text", value |-> v, stage |-> "call",
                 verbatim |-> FALSE, text |-> <<>>, exc |-> "",
                 warnings |-> 0]

CallFormatText ==
    /\ unit.fn = "format_text" /\ unit.stage = "call"
    /\ LET r == FormatText(unit.value, StringFields)
       IN  unit' = [unit EXCEPT !.stage = r.stage, !.verbatim = r.verbatim,
                                !.text = r.text, !.exc = r.exc,
                                !.warnings = r.warnings]
    /\ UNCHANGED renderVars

SpecFormat == InitFormat /\ [][CallFormatText]_vars

\* the template has a piece that the record's string-valued fields do
\* not resolve
Unresolvable(value) ==
    \E i \in 1..Len(value) :
       \/ value[i].t \in {"pos", "attr", "brace"}
       \/ value[i].t = "field" /\ value[i].name \notin DOMAIN StringFields

\* C12: format_text never raises for a string value; a template that
\* cannot be resolved (unknown field, field that is not a string,
\* positional or attribute placeholder, malformed braces) comes back
\* unchanged with one warning logged.
C12_FormatNeverRaises ==
    unit.fn = "format_text" =>
        /\ unit.stage # "raised"
        /\ (unit.stage = "returned" /\ Unresolvable(unit.value)) =>
              unit.verbatim /\ unit.warnings = 1

----------------------------------------------------------------------------
(* The order of the sections *)

MaxSections == 4

Canonical ==
    <<"Welcome Message", "Important Account Information", "Account Summary",
      "Transaction and Interest Summary", "Transaction History",
      "Daily Ending Balance">>

SectionTitles ==
    {Canonical[i] : i \in 1..Len(Canonical)} \cup {"Fees", "Customer Service"}

\* ctx['sections'] with the given titles; the i-th section holds a text of
\* i lines, which tells sections of the same title apart
SectionsOf(titles) ==
    [i \in 1..Len(titles) |-> Section(titles[i], <<TextBlock(i)>>)]

InitSort ==
    /\ Idle
    /\ \E n \in 1..MaxSections : \E titles \in [1..n -> SectionTitles] :
         unit = [fn |-> "sort", value |-> SectionsOf(titles),
                 stage |-> "call", out |-> <<>>]

\* middle_sections.sort(key=lambda x: get_section_order(x["title"]))
CallSort ==
    /\ unit.fn = "sort" /\ unit.stage = "call"
    /\ unit' = [unit EXCEPT !.stage = "sorted",
                            !.out = SortSections(unit.value)]
    /\ UNCHANGED renderVars

SpecSort == InitSort /\ [][CallSort]_vars

Recognized(sec) == \E k \in 1..Len(Canonical) : Canonical[k] = sec.title

Rank(sec) == CHOOSE k \in 1..Len(Canonical) : Canonical[k] = sec.title

\* where the section stood in the input
InputPos(sec) == sec.content[1].nLines

\* C13: the sections are rendered with every recognized title before
\* every unrecognized one, recognized titles in the canonical order, and
\* sections with unrecognized titles, or with the same title, in their
\* input order; no section is lost or added.
C13_CanonicalOrder ==
    (unit.fn = "sort" /\ unit.stage = "sorted") =>
        LET out == unit.out
        IN  /\ Len(out) = Len(unit.value)
            /\ \A i \in 1..Len(unit.value) :
                  \E j \in 1..Len(out) : out[j] = unit.value[i]
            /\ \A i, j \in 1..Len(out) : i < j =>
                  /\ Recognized(out[j]) => Recognized(out[i])
                  /\ (Recognized(out[i]) /\ Recognized(out[j])) =>
                        Rank(out[i]) <= Rank(out[j])
                  /\ (\/ out[i].title = out[j].title
                      \/ ~Recognized(out[i]) /\ ~Recognized(out[j])) =>
                        InputPos(out[i]) < InputPos(out[j])

C13_Witness ==
    /\ unit.fn = "sort" /\ unit.stage = "sorted"
    /\ Len(unit.value) = 4
    /\ unit.value[1].title = "Fees"
    /\ unit.value[2].title = "Daily Ending Balance"
    /\ unit.value[3].title = "Customer Service"
    /\ unit.value[4].title = "Welcome Message"
    /\ unit.out[1].title = "Welcome Message"
    /\ unit.out[3].title = "Fees"
    /\ unit.out[4].title = "Customer Service"

----------------------------------------------------------------------------
(* wrap_text *)

MaxWords == 4

\* c.stringWidth(word + " ", font_name, font_size) of the words of a text
WordWidths == {Pt(20), Pt(40), Pt(70)}

\* max_width: one of the word widths is wider than either
WrapWidths == {Pt(60), Pt(65)}

\* text.split(): the words in order, each with its measured width
WordsOf(widths) == [i \in 1..Len(widths) |-> [i |-> i, w |-> widths[i]]]

\* The test of wrap_text with every word taken to fit.
FitsAlways(current_width, word_width, max_width) == TRUE

\* if current_width + word_width <= max_width
Fits(current_width, word_width, max_width) ==
    current_width + word_width <= max_width

\* The end of wrap_text with the line in progress thrown away.
FlushNothing(lines, current_line) == lines

\* if current_line: lines.append(" ".join(current_line))
Flush(lines, current_line) ==
    IF current_line # <<>> THEN Append(lines, current_line) ELSE lines

InitWrap ==
    /\ Idle
    /\ \E n \in 0..MaxWords : \E widths \in [1..n -> WordWidths] :
       \E mw \in WrapWidths :
         unit = [fn |-> "wrap_text", words |-> WordsOf(widths),
                 max_width |-> mw, i |-> 1, lines |-> <<>>,
                 current_line |-> <<>>, current_width |-> 0,
                 stage |-> "loop"]

\* one turn of "for word in words"
WrapWord ==
    /\ unit.fn = "wrap_text" /\ unit.stage = "loop"
    /\ unit.i <= Len(unit.words)
    /\ LET word == unit.words[unit.i]
       IN  unit' =
             IF Fits(unit.current_width, word.w, unit.max_width)
             THEN [unit EXCEPT !.current_line = Append(@, word),
                               !.current_width = @ + word.w,
                               !.i = @ + 1]
             ELSE [unit EXCEPT !.lines = Append(@, unit.current_line),
                               !.current_line = <<word>>,
                               !.current_width = word.w,
                               !.i = @ + 1]
    /\ UNCHANGED renderVars

\* after the loop: the last line, then return lines
WrapReturn ==
    /\ unit.fn = "wrap_text" /\ unit.stage = "loop"
    /\ unit.i = Len(unit.words) + 1
    /\ unit' = [unit EXCEPT !.lines = Flush(@, unit.current_line),
                            !.stage = "returned"]
    /\ UNCHANGED renderVars

NextWrap ==
    \/ WrapWord
    \/ WrapReturn

SpecWrap == InitWrap /\ [][NextWrap]_vars

\* the measured width of a line: its words, one trailing space each
LineWidth(line) == SumSeq([k \in 1..Len(line) |-> line[k].w])

\* C14: every line wrap_text returns measures at most max_width, except a
\* line made of one word that is itself wider than max_width; such a word
\* has its line to itself.
C14_LinesFit ==
    (unit.fn = "wrap_text" /\ unit.stage = "returned") =>
        \A k \in 1..Len(unit.lines) :
           LET line == unit.lines[k]
           IN  /\ \/ LineWidth(line) <= unit.max_width
                  \/ Len(line) = 1 /\ line[1].w > unit.max_width
               /\ \A j \in 1..Len(line) :
                     line[j].w > unit.max_width => Len(line) = 1

C14_Witness ==
    /\ unit.fn = "wrap_text" /\ unit.stage = "returned"
    /\ unit.max_width = Pt(60)
    /\ \E k \in 1..Len(unit.lines) :
         Len(unit.lines[k]) = 2 /\ LineWidth(unit.lines[k]) = Pt(60)
    /\ \E k \in 1..Len(unit.lines) :
         Len(unit.lines[k]) = 1 /\ unit.lines[k][1].w = Pt(70)

\* C15: the words of the returned lines, read line by line, are the words
\* of the text in their order, none dropped, repeated or moved; an empty
\* text gives no line.
C15_WordsPreserved ==
    (unit.fn = "wrap_text" /\ unit.stage = "returned") =>
        /\ Flat(unit.lines) = unit.words
        /\ unit.words = <<>> => unit.lines = <<>>

C15_Witness ==
    /\ unit.fn = "wrap_text" /\ unit.stage = "returned"
    /\ Len(unit.words) = 4
    /\ Len(unit.lines) >= 3
    /\ unit.words[1].w = Pt(70)
    /\ Len(unit.lines[Len(unit.lines)]) = 2

----------------------------------------------------------------------------
(* generate_statement_data: randomize.py and gen_PL.py.  Amounts are in
   cents: every amount is round(x, 2), and the sums the code keeps in
   floating point are printed with two decimals. *)

MaxGenTx == 3

\* amount = round(random.uniform(10, 1000), 2)
GenAmounts == {1000, 2550}

\* balance = round(random.uniform(1000, 10000), 2)
GenBeginning == 100000

\* end_date = fake.date_between('-30d', 'today'), start_date = end_date -
\* 30 days: a period inside one year and one that crosses into the next;
\* days are the dates date_between(start_date, end_date) is drawn from,
\* as <<year, month, day>>
GenPeriods ==
    {[start |-> <<2025, 3, 1>>, end |-> <<2025, 3, 31>>,
      days |-> {<<2025, 3, 3>>, <<2025, 3, 17>>, <<2025, 3, 30>>}],
     [start |-> <<2025, 12, 15>>, end |-> <<2026, 1, 14>>,
      days |-> {<<2025, 12, 20>>, <<2025, 12, 31>>, <<2026, 1, 5>>}]}

\* f"{currency}{amount:.2f}": the whole part and the two decimals; the
\* empty string is <<>>
Money(a) == <<a \div 100, a % 100>>

\* str(n) and the number it reads as
Str(n) == [digits |-> n]

ParseInt(s) == s.digits

\* float(s.replace(currency, ""))
ParseMoney(s) == s[1] * 100 + s[2]

\* trans_date.strftime('%m/%d'): the year is not kept
MonthDay(date) == <<date[2], date[3]>>

\* datetime.strptime(a, '%m/%d') <= datetime.strptime(b, '%m/%d'): both
\* in the year 1900
ParsedLeq(a, b) == a[1] < b[1] \/ (a[1] = b[1] /\ a[2] <= b[2])

RECURSIVE InsertByDate(_, _)
InsertByDate(x, s) ==
    IF s = <<>> THEN <<x>>
    ELSE IF ParsedLeq(Head(s).date, x.date)
    THEN <<Head(s)>> \o InsertByDate(x, Tail(s))
    ELSE <<x>> \o s

RECURSIVE SortByDate(_)
\* transactions.sort(key=lambda x: datetime.strptime(x['date'], '%m/%d'))
SortByDate(s) ==
    IF s = <<>> THEN <<>>
    ELSE InsertByDate(s[Len(s)], SortByDate(SubSeq(s, 1, Len(s) - 1)))

\* The balance loop of randomize.py with the debits left out.
RECURSIVE RecalculateCreditsOnly(_, _)
RecalculateCreditsOnly(txs, running) ==
    IF txs = <<>> THEN <<>>
    ELSE LET t  == Head(txs)
             r1 == IF t.credit # <<>> THEN running + ParseMoney(t.credit)
                   ELSE running
         IN  <<[t EXCEPT !.balance = Money(r1)]>>
             \o RecalculateCreditsOnly(Tail(txs), r1)

RECURSIVE Recalculate(_, _)
\* running_balance = beginning_balance; for transaction in transactions:
\* add the credit, take off the debit, write the balance
Recalculate(txs, running) ==
    IF txs = <<>> THEN <<>>
    ELSE LET t  == Head(txs)
             r1 == IF t.credit # <<>> THEN running + ParseMoney(t.credit)
                   ELSE running
             r2 == IF t.debit # <<>> THEN r1 - ParseMoney(t.debit) ELSE r1
         IN  <<[t EXCEPT !.balance = Money(r2)]>>
             \o Recalculate(Tail(txs), r2)

\* The summary with every transaction counted as a deposit.
SummaryCountingAll(u, ending) ==
    [beginning_balance |-> Money(u.beginning_balance),
     deposits_count |-> Str(Len(u.transactions)),
     deposits_total |-> Money(u.deposits_total),
     withdrawals_count |-> Str(u.withdrawals_count),
     withdrawals_total |-> Money(u.withdrawals_total),
     ending_balance |-> Money(ending)]

\* summary = {...}
Summary(u, ending) ==
    [beginning_balance |-> Money(u.beginning_balance),
     deposits_count |-> Str(u.deposits_count),
     deposits_total |-> Money(u.deposits_total),
     withdrawals_count |-> Str(u.withdrawals_count),
     withdrawals_total |-> Money(u.withdrawals_total),
     ending_balance |-> Money(ending)]

InitGen ==
    /\ Idle
    /\ \E g \in {"randomize", "gen_pl"}, p \in GenPeriods, n \in 0..MaxGenTx :
         unit = [fn |-> "generate_statement_data", gen |-> g, period |-> p,
                 n |-> n, transactions |-> <<>>,
                 beginning_balance |-> GenBeginning,
                 balance |-> GenBeginning,
                 deposits_count |-> 0, withdrawals_count |-> 0,
                 deposits_total |-> 0, withdrawals_total |-> 0,
                 summary |-> [beginning_balance |-> <<>>,
                              deposits_count |-> Str(0),
                              deposits_total |-> <<>>,
                              withdrawals_count |-> Str(0),
                              withdrawals_total |-> <<>>,
                              ending_balance |-> <<>>],
                 stage |-> "loop"]

\* one turn of the loop that draws the transactions; gen_PL.py keeps the
\* balance as it goes and writes it on the transaction
GenTransaction ==
    /\ unit.fn = "generate_statement_data" /\ unit.stage = "loop"
    /\ Len(unit.transactions) < unit.n
    /\ \E trans_date \in unit.period.days, trans_type \in {"credit", "debit"},
          amount \in GenAmounts :
         LET cr  == trans_type = "credit"
             bal == IF cr THEN unit.balance + amount
                    ELSE unit.balance - amount
             t   == [date |-> MonthDay(trans_date),
                     credit |-> IF cr THEN Money(amount) ELSE <<>>,
                     debit |-> IF cr THEN <<>> ELSE Money(amount),
                     balance |-> IF unit.gen = "gen_pl" THEN Money(bal)
                                 ELSE <<>>]
         IN  unit' = [unit EXCEPT
                        !.transactions = Append(@, t),
                        !.balance = IF unit.gen = "gen_pl" THEN bal ELSE @,
                        !.deposits_count = IF cr THEN @ + 1 ELSE @,
                        !.deposits_total = IF cr THEN @ + amount ELSE @,
                        !.withdrawals_count = IF cr THEN @ ELSE @ + 1,
                        !.withdrawals_total = IF cr THEN @ ELSE @ + amount]
    /\ UNCHANGED renderVars

\* after the loop: randomize.py sorts the transactions and works the
\* balances out again; both build the summary and return
GenReturn ==
    /\ unit.fn = "generate_statement_data" /\ unit.stage = "loop"
    /\ Len(unit.transactions) = unit.n
    /\ LET txs    == IF unit.gen = "randomize"
                     THEN Recalculate(SortByDate(unit.transactions),
                                      unit.beginning_balance)
                     ELSE unit.transactions
           ending == IF unit.gen = "gen_pl" THEN unit.balance
                     ELSE IF txs = <<>> THEN unit.beginning_balance
                     ELSE ParseMoney(txs[Len(txs)].balance)
       IN  unit' = [unit EXCEPT !.transactions = txs,
                                !.summary = Summary(unit, ending),
                                !.stage = "returned"]
    /\ UNCHANGED renderVars

\* app_bankPL.generate_statement: the record of gen_PL.py cut down to
\* num_transactions (the slider's value) before it goes to the template
\* function; deposits and withdrawals are the credits and debits that are
\* left, and the three counts are written again
GenerateStatement ==
    /\ unit.fn = "generate_statement_data" /\ unit.stage = "returned"
    /\ unit.gen = "gen_pl"
    /\ \E num_transactions \in 1..MaxGenTx :
         LET txs == SubSeq(unit.transactions, 1,
                           Min(num_transactions, Len(unit.transactions)))
             dep == {i \in 1..Len(txs) : txs[i].credit # <<>>}
             wd  == {i \in 1..Len(txs) : txs[i].debit # <<>>}
         IN  unit' = [unit EXCEPT
                        !.transactions = txs,
                        !.summary = [@ EXCEPT
                           !.deposits_count = Str(Cardinality(dep)),
                           !.withdrawals_count = Str(Cardinality(wd))],
                        !.stage = "handed"]
    /\ UNCHANGED renderVars

NextGen ==
    \/ GenTransaction
    \/ GenReturn
    \/ GenerateStatement

SpecGen == InitGen /\ [][NextGen]_vars

Returned == unit.fn = "generate_statement_data" /\ unit.stage = "returned"

\* the amounts in the given column of the transactions, empty cells as 0
RECURSIVE ColumnSum(_, _)
ColumnSum(txs, col) ==
    IF txs = <<>> THEN 0
    ELSE (IF Head(txs)[col] # <<>> THEN ParseMoney(Head(txs)[col]) ELSE 0)
         + ColumnSum(Tail(txs), col)

ColumnCount(txs, col) == Cardinality({i \in 1..Len(txs) : txs[i][col] # <<>>})

\* C18: in a generated record deposits_total is the sum of the credits of
\* the transactions, withdrawals_total the sum of the debits, and the two
\* counts are the numbers of transactions with a credit and with a debit.
C18_TotalsMatch ==
    Returned =>
        /\ ParseMoney(unit.summary.deposits_total)
              = ColumnSum(unit.transactions, "credit")
        /\ ParseMoney(unit.summary.withdrawals_total)
              = ColumnSum(unit.transactions, "debit")
        /\ ParseInt(unit.summary.deposits_count)
              = ColumnCount(unit.transactions, "credit")
        /\ ParseInt(unit.summary.withdrawals_count)
              = ColumnCount(unit.transactions, "debit")

C18_Witness ==
    /\ Returned
    /\ unit.gen = "randomize"
    /\ unit.summary.deposits_count = Str(2)
    /\ unit.summary.withdrawals_count = Str(1)
    /\ unit.summary.deposits_total = Money(3550)

\* C19: the balance on the i-th transaction is the beginning balance plus
\* the credits less the debits of transactions 1..i in list order, and
\* the last balance is the summary's ending balance.
C19_RunningBalance ==
    Returned =>
        LET txs == unit.transactions
        IN  /\ \A i \in 1..Len(txs) :
                  ParseMoney(txs[i].balance)
                    = unit.beginning_balance
                      + ColumnSum(SubSeq(txs, 1, i), "credit")
                      - ColumnSum(SubSeq(txs, 1, i), "debit")
            /\ txs # <<>> =>
                  txs[Len(txs)].balance = unit.summary.ending_balance

C19_Witness ==
    /\ Returned
    /\ unit.gen = "randomize"
    /\ Len(unit.transactions) = 3
    /\ unit.transactions[1].debit = Money(2550)
    /\ unit.transactions[2].credit = Money(1000)
    /\ unit.transactions[3].debit = Money(1000)
    /\ unit.summary.ending_balance = Money(GenBeginning - 2550)

\* the date of the period that prints as the given month and day
CalendarDate(period, md) ==
    CHOOSE date \in period.days : MonthDay(date) = md

\* a is a calendar date before b
Earlier(a, b) ==
    \/ a[1] < b[1]
    \/ a[1] = b[1] /\ a[2] < b[2]
    \/ a[1] = b[1] /\ a[2] = b[2] /\ a[3] < b[3]

\* C20: the transactions of a generated record are in ascending
\* calendar-date order: none dated earlier in the period follows one dated
\* later, also when the period runs over the end of a year.
C20_Chronological ==
    Returned =>
        \A i, j \in 1..Len(unit.transactions) : i < j =>
           ~Earlier(CalendarDate(unit.period, unit.transactions[j].date),
                    CalendarDate(unit.period, unit.transactions[i].date))

----------------------------------------------------------------------------
(* The end of a render *)

\* the instructions that act on the canvas
CanvasOps == {"canvas", "check", "draw", "font", "hdrif", "save"}

\* C21: a render finalizes the canvas (c.save) at most once, as its last
\* canvas operation, and only when no error was raised: once an error has
\* been raised nothing has been finalized, and after the finalize no canvas
\* operation is left to run.
C21_SaveOnceAtEnd ==
    cfg \in Configs =>
        /\ saved <= 1
        /\ err.type # "none" => saved = 0
        /\ status \in {"raised", "failed"} => saved = 0
        /\ saved = 1 =>
              /\ status \in {"run", "done"}
              /\ \A k \in pc..Len(Prog) : Prog[k].op \notin CanvasOps

C21_Witness ==
    /\ status = "done"
    /\ saved = 1
    /\ cfg.layout \in DynLayouts
    /\ page >= 2
    /\ canvas

\* C22: a page break made by check_page_break leaves the canvas font and
\* size as they were immediately before the call; a row drawn after a
\* redrawn table header is in the row font.
C22_FontRestored == [][page' # page => font' = font]_vars

----------------------------------------------------------------------------
(* calculate_dynamic_col_widths on its own.  data is a list of rows, each
   row the list of the lengths of its cells as strings. *)

MaxRows == 2

MaxCols == 3

\* len(str(cell))
CellLengths == {2, 10}

WidthRows == UNION {[1..n -> CellLengths] : n \in 0..MaxCols}

WidthData == UNION {[1..n -> WidthRows] : n \in 0..MaxRows}

\* col_widths_proportions in thousandths: none, even, uneven, summing to
\* less than 1, with a column narrower than half an inch, and the four
\* proportions randomize.py gives the two-column PNC summary
WidthProps ==
    {<<>>, <<500, 500>>, <<150, 550, 300>>, <<200, 300>>, <<50, 950>>,
     <<375, 125, 375, 125>>}

\* random.uniform(0.9, 1.1) in thousandths
Factors == {900, 1000, 1100}

\* usable_width in the sequential arrangement, col_width in the two-column
AvailableWidths ==
    {UsableWidth("dyn_seq"), UsableWidth("dyn_two") \div 2 - Pt(10)}

\* col_lengths = [0] * len(data[0]); col_lengths[i] = max(col_lengths[i],
\* len(cell)), for the cells that have a column
ColLengths(data) ==
    [i \in 1..Len(data[1]) |->
       LET S == {0} \cup {data[r][i] :
                            r \in {q \in 1..Len(data) : i <= Len(data[q])}}
       IN  CHOOSE m \in S : \A x \in S : x <= m]

\* col_lengths[i] = ... for a cell past the end of col_lengths
RowTooLong(data) == \E r \in 1..Len(data) : Len(data[r]) > Len(data[1])

\* the call: exc is what it raises ("" when it returns), widths what it
\* returns
ColWidthsCall(data, usable_width, props, factor) ==
    IF data = <<>>
    THEN [exc |-> "", widths |-> <<usable_width>>]
    ELSE IF props # <<>> /\ RowTooLong(data)
    THEN [exc |-> "IndexError", widths |-> <<>>]
    ELSE IF ColWidthsError(Len(data), ColLengths(data), props) # ""
    THEN [exc |-> ColWidthsError(Len(data), ColLengths(data), props),
          widths |-> <<>>]
    ELSE [exc |-> "",
          widths |-> CalculateDynamicColWidths(Len(data), ColLengths(data),
                                               usable_width, props, factor)]

InitWidths ==
    /\ Idle
    /\ \E data \in WidthData, props \in WidthProps, factor \in Factors,
          w \in AvailableWidths :
         unit = [fn |-> "calculate_dynamic_col_widths", stage |-> "called",
                 data |-> data, usable_width |-> w, props |-> props,
                 factor |-> factor, exc |-> "", widths |-> <<>>]

CallColWidths ==
    /\ unit.fn = "calculate_dynamic_col_widths" /\ unit.stage = "called"
    /\ LET r == ColWidthsCall(unit.data, unit.usable_width, unit.props,
                              unit.factor)
       IN  unit' = [unit EXCEPT
                      !.stage = IF r.exc = "" THEN "returned" ELSE "raised",
                      !.exc = r.exc, !.widths = r.widths]
    /\ UNCHANGED renderVars

SpecWidths == InitWidths /\ [][CallColWidths]_vars

\* C23: every width returned for column i is at least half an inch and at
\* most col_widths_proportions[i] times the available width (to within a
\* point, the arithmetic here being in whole hundredths of a point).
C23_WidthsClamped ==
    (unit.fn = "calculate_dynamic_col_widths" /\ unit.stage = "returned") =>
        \A i \in 1..Len(unit.widths) :
           /\ unit.widths[i] >= inch \div 2 - Pt(1)
           /\ i <= Len(unit.props) =>
                 unit.widths[i]
                   <= (unit.usable_width * unit.props[i]) \div 1000 + Pt(1)

\* C27: for non-empty data calculate_dynamic_col_widths returns, and
\* returns one width per column of the data rows (len(data[0]) widths).
C27_OneWidthPerColumn ==
    (unit.fn = "calculate_dynamic_col_widths" /\ unit.stage # "called"
     /\ unit.data # <<>>) =>
        /\ unit.stage = "returned"
        /\ Len(unit.widths) = Len(unit.data[1])

----------------------------------------------------------------------------
(* Running ledgers *)

\* the tables of a record that hold a running ledger and have rows: the
\* transaction tables of Citi and Wells Fargo, the tables of the dynamic
\* layout fed from transactions or daily_balances
LedgerTables(c) ==
    CASE c.layout = "citi" -> IF c.nTx > 0 THEN {"citi_tx"} ELSE {}
      [] c.layout = "wells" -> IF c.nTx > 0 THEN {"wells_tx"} ELSE {}
      [] c.layout \in DynLayouts ->
           LET secs == MiddleSections(c)
           IN  UNION {{TblId(si, ci) :
                         ci \in {k \in 1..Len(secs[si].content) :
                                   /\ secs[si].content[k].type = "table"
                                   /\ secs[si].content[k].dataKey
                                        \in {"transactions", "daily_balances"}
                                   /\ ResolvedRows(c, secs[si].content[k]) > 0}} :
                      si \in 1..Len(secs)}
      [] OTHER -> {}

\* C24: a render that draws the rows of a running ledger (transactions or
\* daily balances) draws a totals row after them, in the dynamic layout as
\* in the Citi and Wells Fargo transaction tables.
C24_TotalsRow ==
    (status = "done" /\ LedgerTables(cfg) # {}) => "total" \in kinds

\* C25: when check_page_break has returned, the space that was asked for
\* fits on the current page: the returned cursor less space_needed is not
\* below the margin.
C25_RequestFits ==
    (cfg \in Configs /\ call.c # "none") => cur[call.c] - call.space >= M

\* C26: wrap_text returns no empty line: each returned line holds at least
\* one word, also when the first word of the text is wider than max_width.
C26_NoEmptyLine ==
    (unit.fn = "wrap_text" /\ unit.stage = "returned") =>
        \A k \in 1..Len(unit.lines) : unit.lines[k] # <<>>

\* C28: in the dynamic layout, when a table's header row is drawn at the
\* start of the table, the first data row is drawn on the same page as that
\* header: the check before the first row does not break the page.
C28_FirstRowWithHeader ==
    (/\ cfg.layout \in DynLayouts
     /\ last.kind = "row" /\ tab.id = last.tbl /\ tab.rows = 1
     /\ tab.hdrs # <<>> /\ tab.hdrs[1] = last.by.pageIn) =>
        /\ last.page = tab.hdrs[1]
        /\ last.y < tab.hdrY

C28_Witness ==
    /\ cfg.layout \in DynLayouts
    /\ last.kind = "row" /\ tab.id = last.tbl /\ tab.rows = 1
    /\ tab.hdrs # <<>> /\ tab.hdrs[1] = last.by.pageIn
    /\ last.page = tab.hdrs[1]
    /\ last.y - 2 * (cfg.csize + Pt(4)) < M

\* C29: the record app_bankPL.generate_statement hands to the template
\* function, after cutting the transactions down to num_transactions, has
\* a consistent summary: the totals are the sums over the transactions
\* left, the counts match them, and ending_balance is the balance of the
\* last transaction left.
C29_TruncatedConsistent ==
    (unit.fn = "generate_statement_data" /\ unit.stage = "handed") =>
        LET txs == unit.transactions
        IN  /\ ParseMoney(unit.summary.deposits_total)
                  = ColumnSum(txs, "credit")
            /\ ParseMoney(unit.summary.withdrawals_total)
                  = ColumnSum(txs, "debit")
            /\ ParseInt(unit.summary.deposits_count)
                  = ColumnCount(txs, "credit")
            /\ ParseInt(unit.summary.withdrawals_count)
                  = ColumnCount(txs, "debit")
            /\ txs # <<>> =>
                  txs[Len(txs)].balance = unit.summary.ending_balance

----------------------------------------------------------------------------
(* app_pl.py: the script is run from top to bottom once per event of the
   page.  None is written "None" for the bank and the account type and 0
   for the number of transactions. *)

BANK_NAMES == {"Chase", "Wells Fargo", "PNC", "Citibank"}

ACCOUNT_TYPES == {"personal", "business"}

\* values of the slider, within TRANSACTION_RANGE = (3, 25); 5 is its
\* default
SliderValues == {3, 5, 12, 25}

NoEvent == [e |-> "load", bank |-> "None", account |-> "None", n |-> 0]

\* the sidebar: bank buttons, account type buttons, slider, Generate
\* Statement button
Sidebar(u, ev) ==
    LET a == IF ev.e = "bank"
             THEN [u EXCEPT !.selected_bank = ev.bank,
                            !.sidebar_selection_made = TRUE]
             ELSE u
        b == IF ev.e = "account"
             THEN [a EXCEPT !.account_type = ev.account,
                            !.sidebar_selection_made = TRUE]
             ELSE a
        n == IF ev.e = "slider" THEN ev.n
             ELSE IF b.num_transactions = 0 THEN 5 ELSE b.num_transactions
        c == [b EXCEPT !.num_transactions = n,
                       !.sidebar_selection_made = @ \/ n # 5]
    IN  IF ev.e = "sidebar_generate" /\ c.selected_bank # "None"
        THEN [c EXCEPT !.sidebar_selection_made = TRUE,
                       !.trigger_generate = TRUE]
        ELSE c

\* if st.button("Generate", key="main_generate_button"): the random draws
\* are ev.bank, ev.account, ev.n
MainGenerateButton(u, ev) ==
    IF ev.e # "main_generate" THEN u
    ELSE IF ~u.sidebar_selection_made
    THEN [u EXCEPT !.selected_bank = ev.bank, !.account_type = ev.account,
                   !.num_transactions = ev.n, !.trigger_generate = TRUE]
    ELSE [u EXCEPT !.trigger_generate = TRUE]

\* if st.session_state.get('trigger_generate', False): generate_statement_data
\* is called with selected_bank; the flag is cleared whether or not the
\* call raises.  invoked is the bank of the call made in this run.
HandleGeneration(u) ==
    IF u.trigger_generate
    THEN [u EXCEPT !.invoked = u.selected_bank, !.trigger_generate = FALSE]
    ELSE [u EXCEPT !.invoked = "no"]

\* one run of the script
Script(u, ev) == HandleGeneration(MainGenerateButton(Sidebar(u, ev), ev))

\* the session state after "Initialize session state", before any widget
InitApp ==
    /\ Idle
    /\ unit = [fn |-> "app_pl", selected_bank |-> "None",
               account_type |-> "None", num_transactions |-> 0,
               sidebar_selection_made |-> FALSE, trigger_generate |-> FALSE,
               invoked |-> "no"]

\* the page is loaded or reloaded with no widget touched
PageLoad ==
    /\ unit.fn = "app_pl"
    /\ unit' = Script(unit, NoEvent)
    /\ UNCHANGED renderVars

ClickBank ==
    /\ unit.fn = "app_pl"
    /\ \E bank \in BANK_NAMES :
         unit' = Script(unit, [NoEvent EXCEPT !.e = "bank", !.bank = bank])
    /\ UNCHANGED renderVars

ClickAccountType ==
    /\ unit.fn = "app_pl"
    /\ \E account_type \in ACCOUNT_TYPES :
         unit' = Script(unit, [NoEvent EXCEPT !.e = "account",
                                              !.account = account_type])
    /\ UNCHANGED renderVars

MoveSlider ==
    /\ unit.fn = "app_pl"
    /\ \E n \in SliderValues :
         unit' = Script(unit, [NoEvent EXCEPT !.e = "slider", !.n = n])
    /\ UNCHANGED renderVars

ClickSidebarGenerate ==
    /\ unit.fn = "app_pl"
    /\ unit' = Script(unit, [NoEvent EXCEPT !.e = "sidebar_generate"])
    /\ UNCHANGED renderVars

ClickMainGenerate ==
    /\ unit.fn = "app_pl"
    /\ \E bank \in BANK_NAMES, account_type \in ACCOUNT_TYPES,
          n \in SliderValues :
         unit' = Script(unit, [e |-> "main_generate", bank |-> bank,
                               account |-> account_type, n |-> n])
    /\ UNCHANGED renderVars

NextApp ==
    \/ PageLoad
    \/ ClickBank
    \/ ClickAccountType
    \/ MoveSlider
    \/ ClickSidebarGenerate
    \/ ClickMainGenerate

SpecApp == InitApp /\ [][NextApp]_vars

\* C30: in app_pl, whatever the sequence of sidebar clicks, slider changes
\* and Generate clicks, statement generation is never invoked while
\* selected_bank is None.
C30_BankSelectedWhenGenerating ==
    unit.fn = "app_pl" => unit.invoked # "None"

====
